---- MODULE Spec2Model ----
(***************************************************************************)
(* State-machine model of the ESP AT library core:                         *)
(*   - esp.c: the API functions and send_msg_to_producer_queue, together   *)
(*     with the producer / consumer pipeline they feed          (SpecApi)  *)
(*   - esp_http_server.c: URI resolution and the per-connection HTTP       *)
(*     state machine                                  (SpecUri, SpecHttp)  *)
(***************************************************************************)
EXTENDS Integers, Sequences, FiniteSets, TLC

None == "none"

(***************************************************************************)
(* Part 1: esp.c                                                           *)
(***************************************************************************)

espOK == "espOK"
espERR == "espERR"
espTIMEOUT == "espTIMEOUT"

\* esp_sys_mbox_create(&esp.mbox_producer, 20) / (&esp.mbox_consumer, 20)
MboxSize == 20

\* Number of esp_msg_t blocks the message heap can hold at once.
MemMsgs == 22

\* Largest block_time (in ticks) a caller passes.
MaxBlock == 2

\* Return value of esp_sys_sem_wait when the wait timed out.
ESP_SYS_TIMEOUT == "ESP_SYS_TIMEOUT"

VARIABLES
    pc,             \* position of the application thread: esp_init, then API calls
    init_step,      \* index of the next command esp_init issues
    blocked,        \* where the running blocking API call is suspended, or None
    mbox_producer,  \* esp.mbox_producer: FIFO of messages
    inflight,       \* message the producer thread is processing, or NoMsg
    mbox_consumer,  \* esp.mbox_consumer: FIFO of completed non-blocking messages
    heap_msgs,      \* number of esp_msg_t blocks currently allocated
    cur,            \* the message of the running blocking call (msg-> fields)
    sem,            \* msg->sem of the running blocking call
    waited,         \* ticks the caller has spent in esp_sys_sem_wait
    ret,            \* value returned by the last API call, None while it runs
    call,           \* what happened to the last API call's message
    taken,          \* commands the producer thread took, in order (first few)
    init_finish     \* ESP_CB_INIT_FINISH was delivered to esp.cb_func

apiVars == <<pc, init_step, blocked, mbox_producer, inflight, mbox_consumer, heap_msgs, cur,
             sem, waited, ret, call, taken, init_finish>>

\* state of the HTTP server (esp_http_server.c) and of the connection it serves
VARIABLES
    hs,             \* http_state_t of the connection (NoHs: none allocated)
    http_uri,       \* global scratch array with the request URI
    http_params,    \* global array of parsed parameters
    conn,           \* the connection slot as seen through the esp_conn API
    log,            \* calls the server made to file provider and user callbacks
    rx,             \* packets of the request the client has not delivered yet
    fsys,           \* files the file provider exposes
    req,            \* the request the client sends: method kind, bytes, body
    alone           \* the server's state had the same events reached it with no
                    \* other connection writing http_uri / http_params in between
                    \* (kept for the scenarios with a second connection)

httpVars == <<hs, http_uri, http_params, conn, log, rx, fsys, req, alone>>

\* one call of read_resp_file for a dynamic file, taken by itself
VARIABLES
    rd              \* bytes left in the file, ESP_CFG_CONN_MAX_DATA_LEN of the
                    \* build, largest block the heap can hand out, and the
                    \* outcome of the allocation loop (NoRes: not run yet)

readVars == <<rd>>

\* the low-level receive path of the STM32 port (esp_ll.c) and the first part
\* of esp_init, up to esp_buff_init
VARIABLES
    boot,           \* how far esp_init has come: "start", "ll", "threads", "buff"
    irq_enabled,    \* USART IDLE and DMA HT/TC interrupts are enabled in the NVIC
    threads_started,\* producer and consumer threads were created
    buff_ready,     \* esp_buff_init(&esp.buff, 0x400) has returned
    usart_mem,      \* the circular DMA target; 0 where nothing was stored yet
    ndtr,           \* DMA stream data length register: bytes left in this lap
    flags,          \* hardware flags IDLE (USART), HT and TC (DMA stream)
    line_busy,      \* a byte arrived since the line was last seen idle
    old_pos,        \* uint16_t old_pos
    isr,            \* the handler being executed and its local variables
    rx_count,       \* bytes the device has sent; byte i carries the value i
    input,          \* bytes handed to esp_input so far; -1: memory behind usart_mem
    last_call,      \* operands of the last to_read computation and esp_input call
    early,          \* calls of esp_input made before esp_buff_init returned
    overrun         \* the DMA overwrote a byte no handler had passed on yet

uartVars == <<boot, irq_enabled, threads_started, buff_ready, usart_mem, ndtr, flags,
              line_busy, old_pos, isr, rx_count, input, last_call, early, overrun>>

vars == <<apiVars, httpVars, readVars, uartVars>>

\* Length of the prefix of the take order that is remembered.
TakenLog == 6

\* esp_init: the five commands it issues, in program order, each with the
\* argument it passes and blocking = 0.
esp_init_cmds_swapped ==
    << [cmd_def |-> "ESP_CMD_WIFI_CWMODE",     arg |-> "ESP_MODE_STA", blocking |-> 0],
       [cmd_def |-> "ESP_CMD_RESET",           arg |-> None,           blocking |-> 0],
       [cmd_def |-> "ESP_CMD_TCPIP_CIPMUX",    arg |-> "1",            blocking |-> 0],
       [cmd_def |-> "ESP_CMD_TCPIP_CIPDINFO",  arg |-> "1",            blocking |-> 0],
       [cmd_def |-> "ESP_CMD_TCPIP_CIPSTATUS", arg |-> None,           blocking |-> 0] >>

esp_init_cmds ==
    << [cmd_def |-> "ESP_CMD_RESET",           arg |-> None,           blocking |-> 0],
       [cmd_def |-> "ESP_CMD_WIFI_CWMODE",     arg |-> "ESP_MODE_STA", blocking |-> 0],
       [cmd_def |-> "ESP_CMD_TCPIP_CIPMUX",    arg |-> "1",            blocking |-> 0],
       [cmd_def |-> "ESP_CMD_TCPIP_CIPDINFO",  arg |-> "1",            blocking |-> 0],
       [cmd_def |-> "ESP_CMD_TCPIP_CIPSTATUS", arg |-> None,           blocking |-> 0] >>

\* What is recorded about an API call: its blocking argument, whether its message
\* was allocated, placed on the producer queue, refused because the queue was full,
\* whether the pipeline signalled its semaphore and which result the pipeline wrote.
NoCall == [block_time |-> 0, alloc |-> FALSE, enq |-> FALSE, full |-> FALSE,
           signalled |-> FALSE, pres |-> None]

NoMsg == [cmd |-> None, arg |-> None, block_time |-> 0, res |-> espOK]

\* ---- operating-system port (esp_sys): mailboxes and semaphores ----------

\* esp_sys_mbox_putnow: 1 when the message was written, 0 when the queue is full
esp_sys_mbox_putnow(mbox) == Len(mbox) < MboxSize

\* the queue after a successful put: messages are appended at the tail
mbox_after_put(mbox, m) == Append(mbox, m)

\* esp_sys_sem_wait(sem, timeout): "blocked" while the caller cannot continue,
\* else "in_time" (standing for the time waited) or ESP_SYS_TIMEOUT; timeout 0
\* waits forever
esp_sys_sem_wait(s, w, timeout) ==
    IF s = "signalled" THEN "in_time"
    ELSE IF timeout # 0 /\ w >= timeout THEN ESP_SYS_TIMEOUT
    ELSE "blocked"

\* ---- send_msg_to_producer_queue -----------------------------------------

\* msg->cmd after "if (!msg->cmd) msg->cmd = msg->cmd_def"
msg_cmd(cmd, cmd_def) == IF cmd = None THEN cmd_def ELSE cmd

\* non-blocking branch: res after esp_sys_mbox_putnow
putnow_res_ignored(putok) == espOK

putnow_res(putok) == IF putok THEN espOK ELSE espERR

\* timeout argument the blocking branch hands to esp_sys_sem_wait
sem_wait_arg(block_time) == 0

\* blocking branch: res after esp_sys_sem_wait returned `time`
wait_res_local(time, msgres) == IF time = ESP_SYS_TIMEOUT THEN espERR ELSE espOK

wait_res(time, msgres) == IF time = ESP_SYS_TIMEOUT THEN espERR ELSE msgres

\* The function up to the point where it returns or blocks.
\* sem_ok: esp_sys_sem_create succeeded.
send_msg_to_producer_queue(cmd, cmd_def, arg, block_time, sem_ok) ==
    LET msg == [cmd |-> msg_cmd(cmd, cmd_def), arg |-> arg, block_time |-> block_time,
                res |-> espOK]
        putok == esp_sys_mbox_putnow(mbox_producer)
    IN  IF block_time # 0 /\ ~sem_ok
        THEN \* ESP_MSG_VAR_FREE(msg); return espERR
             /\ ret' = espERR
             /\ call' = [NoCall EXCEPT !.block_time = block_time, !.alloc = TRUE]
             /\ UNCHANGED <<mbox_producer, heap_msgs, cur, sem, waited, blocked>>
        ELSE IF block_time # 0
        THEN \* esp_sys_mbox_put: write the message, waiting for room if needed
             /\ heap_msgs' = heap_msgs + 1
             /\ cur' = msg
             /\ sem' = "locked"
             /\ waited' = 0
             /\ ret' = None
             /\ IF putok
                THEN /\ mbox_producer' = mbox_after_put(mbox_producer, msg)
                     /\ blocked' = "sem_wait"
                     /\ call' = [NoCall EXCEPT !.block_time = block_time,
                                               !.alloc = TRUE, !.enq = TRUE]
                ELSE /\ blocked' = "mbox_put"
                     /\ call' = [NoCall EXCEPT !.block_time = block_time,
                                               !.alloc = TRUE, !.full = TRUE]
                     /\ UNCHANGED mbox_producer
        ELSE \* esp_sys_mbox_putnow; the function returns res
             /\ heap_msgs' = heap_msgs + 1
             /\ ret' = putnow_res(putok)
             /\ call' = [NoCall EXCEPT !.alloc = TRUE, !.enq = putok, !.full = ~putok]
             /\ mbox_producer' = IF putok THEN mbox_after_put(mbox_producer, msg)
                                          ELSE mbox_producer
             /\ UNCHANGED <<cur, sem, waited, blocked>>

\* An API function: ESP_MSG_VAR_ALLOC, fill in the message, send it.
ApiCall(cmd, cmd_def, arg, blocking, sem_ok) ==
    IF heap_msgs >= MemMsgs
    THEN \* ESP_MSG_VAR_ALLOC finds no memory: the function returns an error
         /\ ret' = espERR
         /\ call' = [NoCall EXCEPT !.block_time = blocking]
         /\ UNCHANGED <<mbox_producer, heap_msgs, cur, sem, waited, blocked>>
    ELSE send_msg_to_producer_queue(cmd, cmd_def, arg, blocking, sem_ok)

\* the blocking caller, suspended in esp_sys_mbox_put, finds room in the queue
MboxPutResume ==
    /\ blocked = "mbox_put"
    /\ esp_sys_mbox_putnow(mbox_producer)
    /\ mbox_producer' = mbox_after_put(mbox_producer, cur)
    /\ blocked' = "sem_wait"
    /\ call' = [call EXCEPT !.enq = TRUE]
    /\ UNCHANGED <<pc, init_step, inflight, mbox_consumer, heap_msgs, cur, sem, waited, ret,
                   taken, init_finish>>
    /\ UNCHANGED <<httpVars, readVars, uartVars>>

\* a tick passes while the caller is suspended in esp_sys_sem_wait
Tick ==
    /\ blocked = "sem_wait"
    /\ waited <= MaxBlock
    /\ waited' = waited + 1
    /\ UNCHANGED <<pc, init_step, blocked, mbox_producer, inflight, mbox_consumer, heap_msgs,
                   cur, sem, ret, call, taken, init_finish>>
    /\ UNCHANGED <<httpVars, readVars, uartVars>>

\* esp_sys_sem_wait returns; the rest of send_msg_to_producer_queue runs:
\* res is set, the semaphore deleted, the message released
SemWaitReturn ==
    /\ blocked = "sem_wait"
    /\ LET time == esp_sys_sem_wait(sem, waited, sem_wait_arg(cur.block_time))
       IN  /\ time # "blocked"
           /\ ret' = wait_res(time, cur.res)
    /\ sem' = None
    /\ heap_msgs' = heap_msgs - 1
    /\ cur' = NoMsg
    /\ blocked' = None
    /\ waited' = 0
    /\ UNCHANGED <<pc, init_step, mbox_producer, inflight, mbox_consumer, call, taken, init_finish>>
    /\ UNCHANGED <<httpVars, readVars, uartVars>>

\* ---- esp_init ----------------------------------------------------------

\* esp_sys_init ... esp_buff_init: the queues and the two threads are created
EspInitStart ==
    /\ pc = "init"
    /\ pc' = "cmds"
    /\ init_step' = 1
    /\ mbox_producer' = <<>>
    /\ mbox_consumer' = <<>>
    /\ UNCHANGED <<blocked, inflight, heap_msgs, cur, sem, waited, ret, call, taken,
                   init_finish>>
    /\ UNCHANGED <<httpVars, readVars, uartVars>>

\* esp_reset(0); esp_set_wifi_mode(ESP_MODE_STA, 0); esp_set_mux(1, 0);
\* espi_set_dinfo(1, 0); esp_get_conns_status(0): one call per step
EspInitCmd ==
    /\ pc = "cmds"
    /\ ApiCall(None, esp_init_cmds[init_step].cmd_def, esp_init_cmds[init_step].arg,
               esp_init_cmds[init_step].blocking, TRUE)
    /\ init_step' = init_step + 1
    /\ pc' = IF init_step < Len(esp_init_cmds) THEN "cmds" ELSE "finish"
    /\ UNCHANGED <<inflight, mbox_consumer, taken, init_finish>>
    /\ UNCHANGED <<httpVars, readVars, uartVars>>

\* esp.cb.type = ESP_CB_INIT_FINISH; esp.cb_func(&esp.cb); return espOK
EspInitFinish ==
    /\ pc = "finish"
    /\ init_finish' = TRUE
    /\ pc' = "run"
    /\ UNCHANGED <<init_step, blocked, mbox_producer, inflight, mbox_consumer, heap_msgs, cur,
                   sem, waited, ret, call, taken>>
    /\ UNCHANGED <<httpVars, readVars, uartVars>>

\* ---- the application, after esp_init returned --------------------------

\* esp_sta_join(name, pass, mac, def, blocking)
EspStaJoin ==
    /\ pc = "run"
    /\ blocked = None
    /\ \E blocking \in 0..MaxBlock, sem_ok \in BOOLEAN :
          /\ (blocking = 0 => sem_ok)
          /\ ApiCall(None, "ESP_CMD_WIFI_CWJAP", "name", blocking, sem_ok)
    /\ UNCHANGED <<pc, init_step, inflight, mbox_consumer, taken, init_finish>>
    /\ UNCHANGED <<httpVars, readVars, uartVars>>

\* ---- producer and consumer threads -------------------------------------

\* results the pipeline can write into msg->res
PipelineResults == {espOK, espERR, espTIMEOUT}

\* command and argument of a message
MsgCmd(m) == [cmd |-> m.cmd, arg |-> m.arg]

\* the producer thread takes the next message from the head of its queue
ProducerTake ==
    /\ inflight = NoMsg
    /\ pc # "init"
    /\ mbox_producer # <<>>
    /\ inflight' = Head(mbox_producer)
    /\ mbox_producer' = Tail(mbox_producer)
    /\ taken' = IF Len(taken) < TakenLog THEN Append(taken, MsgCmd(Head(mbox_producer)))
                                         ELSE taken
    /\ UNCHANGED <<pc, init_step, blocked, mbox_consumer, heap_msgs, cur, sem, waited, ret, call,
                   init_finish>>
    /\ UNCHANGED <<httpVars, readVars, uartVars>>

\* the command finished: msg->res is written, then the caller's semaphore is
\* released (blocking) or the message goes to the consumer queue (non-blocking)
ProducerComplete ==
    /\ inflight # NoMsg
    /\ \E r \in PipelineResults :
          IF inflight.block_time # 0
          THEN /\ cur' = [cur EXCEPT !.res = r]
               /\ sem' = "signalled"
               /\ call' = [call EXCEPT !.signalled = TRUE, !.pres = r]
               /\ UNCHANGED mbox_consumer
          ELSE /\ Len(mbox_consumer) < MboxSize
               /\ mbox_consumer' = Append(mbox_consumer, inflight.cmd)
               /\ UNCHANGED <<cur, sem, call>>
    /\ inflight' = NoMsg
    /\ UNCHANGED <<pc, init_step, blocked, mbox_producer, heap_msgs, waited, ret, taken, init_finish>>
    /\ UNCHANGED <<httpVars, readVars, uartVars>>

\* the consumer thread dispatches the callback of a completed non-blocking
\* message and releases the message
ConsumerDispatch ==
    /\ mbox_consumer # <<>>
    /\ mbox_consumer' = Tail(mbox_consumer)
    /\ heap_msgs' = heap_msgs - 1
    /\ UNCHANGED <<pc, init_step, blocked, mbox_producer, inflight, cur, sem, waited, ret, call,
                   taken, init_finish>>
    /\ UNCHANGED <<httpVars, readVars, uartVars>>

ApiInit ==
    /\ pc = "init"
    /\ init_step = 0
    /\ blocked = None
    /\ mbox_producer = <<>>
    /\ inflight = NoMsg
    /\ mbox_consumer = <<>>
    /\ heap_msgs = 0
    /\ cur = NoMsg
    /\ sem = None
    /\ waited = 0
    /\ ret = None
    /\ call = NoCall
    /\ taken = <<>>
    /\ init_finish = FALSE

ApiNext ==
    \/ EspInitStart
    \/ EspInitCmd
    \/ EspInitFinish
    \/ EspStaJoin
    \/ MboxPutResume
    \/ Tick
    \/ SemWaitReturn
    \/ ProducerTake
    \/ ProducerComplete
    \/ ConsumerDispatch

(***************************************************************************)
(* Claims about esp.c, checked under SpecApi                               *)
(***************************************************************************)

\* C1: a non-blocking API call (blocking argument 0) returns without waiting, and
\* its result is espOK exactly when its message was placed on the producer queue
\* and espERR when the producer queue was full.
C1_NonBlockingResult ==
    (call.alloc /\ call.block_time = 0) =>
        /\ blocked = None
        /\ ret \in {espOK, espERR}
        /\ (ret = espOK <=> call.enq)
        /\ (call.full => ret = espERR /\ ~call.enq)

\* a non-blocking call found the producer queue full and returned espERR
C1_Witness ==
    /\ call.alloc /\ call.block_time = 0 /\ call.full
    /\ ret = espERR
    /\ Len(mbox_producer) = MboxSize

C3_WaitBounded ==
    blocked = "sem_wait" => waited <= call.block_time

\* the order in which the producer thread takes the messages: those it took,
\* followed by those still on the producer queue
TakeOrder == taken \o [i \in 1..Len(mbox_producer) |-> MsgCmd(mbox_producer[i])]

InitOrder ==
    << [cmd |-> "ESP_CMD_RESET",           arg |-> None],
       [cmd |-> "ESP_CMD_WIFI_CWMODE",     arg |-> "ESP_MODE_STA"],
       [cmd |-> "ESP_CMD_TCPIP_CIPMUX",    arg |-> "1"],
       [cmd |-> "ESP_CMD_TCPIP_CIPDINFO",  arg |-> "1"],
       [cmd |-> "ESP_CMD_TCPIP_CIPSTATUS", arg |-> None] >>

\* C4: esp_init places exactly five messages on the producer queue, in the order
\* RESET, WIFI_CWMODE (station mode), CIPMUX(1), CIPDINFO(1), CIPSTATUS; messages
\* are taken in the order they were put, so the message of an API call made after
\* esp_init returned is taken after all five.
C4_InitOrder ==
    LET n == IF Len(TakeOrder) < 5 THEN Len(TakeOrder) ELSE 5
    IN  /\ SubSeq(TakeOrder, 1, n) = SubSeq(InitOrder, 1, n)
        /\ (pc \in {"finish", "run"} => n = 5)
        /\ \A i \in 6..Len(TakeOrder) : TakeOrder[i].cmd = "ESP_CMD_WIFI_CWJAP"
        /\ (inflight.cmd = "ESP_CMD_WIFI_CWJAP" =>
                Len(taken) > 5 /\ SubSeq(taken, 1, 5) = InitOrder)

\* the producer thread has taken the message of an esp_sta_join made after esp_init
C4_Witness ==
    /\ pc = "run"
    /\ inflight.cmd = "ESP_CMD_WIFI_CWJAP"
    /\ Len(taken) = 6

\* messages that someone will release: those of a running blocking call (the
\* caller frees it) and the non-blocking ones inside the pipeline
OwnedMsgs ==
    Cardinality({i \in 1..Len(mbox_producer) : mbox_producer[i].block_time = 0})
    + (IF inflight # NoMsg /\ inflight.block_time = 0 THEN 1 ELSE 0)
    + Len(mbox_consumer)
    + (IF blocked # None THEN 1 ELSE 0)

\* C5: every message allocated by an API call is released exactly once and never
\* stays allocated forever; in particular a message whose call returned espERR
\* because it could not be enqueued does not stay allocated: every allocated
\* message is owned by a running blocking call or by the pipeline.
C5_NoLeak ==
    heap_msgs = OwnedMsgs

(***************************************************************************)
(* Part 2: esp_http_server.c                                               *)
(*                                                                         *)
(* Bytes are one-character strings; "CR", "LF" and "NUL" stand for \r, \n  *)
(* and the terminating zero.  C strings are sequences of bytes.            *)
(***************************************************************************)

CRLF == <<"CR", "LF">>

\* size_t arithmetic wraps at this modulus (the width is scaled to 30 bits)
SizeTMod == 1073741824

ESP_SIZET_MAX == SizeTMod - 1

\* HTTP_MAX_URI_LEN: capacity of the http_uri scratch array (without the final 0)
HTTP_MAX_URI_LEN == 12

\* HTTP_MAX_PARAMS: capacity of the http_params array
HTTP_MAX_PARAMS == 2

\* ESP_CFG_CONN_MAX_DATA_LEN: largest chunk read from a dynamic file
ESP_CFG_CONN_MAX_DATA_LEN == 6

\* smallest size read_resp_file still tries to allocate: while ((len >>= 1) > 64)
MinAllocLen == 64

RECURSIVE Concat(_)
\* concatenation of a sequence of sequences
Concat(ss) == IF ss = <<>> THEN <<>> ELSE Head(ss) \o Concat(Tail(ss))

Min(a, b) == IF a < b THEN a ELSE b

\* ---- strings (libc) ------------------------------------------------------

\* tolower
tolower(ch) ==
    CASE ch = "S" -> "s" [] ch = "H" -> "h" [] ch = "T" -> "t" [] ch = "M" -> "m"
      [] ch = "L" -> "l" [] ch = "I" -> "i" [] OTHER -> ch

\* Op applied to the value of v: v is computed once, however often Op uses it
Bind(v, Op(_)) == CHOOSE r \in {Op(x) : x \in {v}} : TRUE

\* the C string that starts at 0-based offset `off` of buffer `buf`: the bytes up
\* to, not including, the next "NUL"
CStr(buf, off) ==
    LET nuls == {i \in (off + 1)..Len(buf) : buf[i] = "NUL"}
        end == IF nuls = {} THEN Len(buf) + 1
               ELSE CHOOSE i \in nuls : \A j \in nuls : i <= j
    IN  SubSeq(buf, off + 1, end - 1)

\* strchr on a C string held in a byte sequence: 0-based offset of the first `ch`
\* at or after `from` and before the terminating NUL, or -1 (NULL)
strchr(buf, from, ch) ==
    LET s == CStr(buf, from)
        hits == {i \in 1..Len(s) : s[i] = ch}
    IN  IF hits = {} THEN -1
        ELSE from + (CHOOSE i \in hits : \A j \in hits : i <= j) - 1

\* strcmpi(a, b) == 0 for two C strings
strcmpi_eq(a, b) ==
    /\ Len(a) = Len(b)
    /\ \A i \in 1..Len(a) : tolower(a[i]) = tolower(b[i])

\* ---- packet buffers (esp_pbuf) ------------------------------------------
\* A pbuf chain is a sequence of packets, each a sequence of bytes.

\* all bytes of the chain in order
pbuf_linear(chain) == Concat(chain)

\* esp_pbuf_length(chain, 1)
esp_pbuf_length(chain) == Len(pbuf_linear(chain))

\* esp_pbuf_strfind: first 0-based index >= from where needle occurs, across
\* packet boundaries, or ESP_SIZET_MAX
esp_pbuf_strfind(chain, needle, from) ==
    LET s == pbuf_linear(chain)
        hits == {i \in from..(Len(s) - Len(needle)) :
                    SubSeq(s, i + 1, i + Len(needle)) = needle}
    IN  IF hits = {} THEN ESP_SIZET_MAX
        ELSE CHOOSE i \in hits : \A j \in hits : i <= j

\* esp_pbuf_strcmp(chain, str, 0) == 0: the chain starts with str
esp_pbuf_strcmp_eq(chain, str) ==
    LET s == pbuf_linear(chain)
    IN  Len(s) >= Len(str) /\ SubSeq(s, 1, Len(str)) = str

\* esp_pbuf_get_at: the byte at 0-based index, or "NUL" with failure
esp_pbuf_get_at(chain, pos) ==
    LET s == pbuf_linear(chain)
    IN  IF pos < Len(s) THEN [ok |-> TRUE, ch |-> s[pos + 1]]
        ELSE [ok |-> FALSE, ch |-> "NUL"]

\* esp_pbuf_copy(chain, dst, n, from): n bytes starting at from
esp_pbuf_copy(chain, n, from) == SubSeq(pbuf_linear(chain), from + 1, from + n)

\* esp_pbuf_skip + esp_pbuf_advance: the chain that starts at byte `offset`,
\* <<>> (NULL) when the offset lies behind the last byte
RECURSIVE esp_pbuf_skip_advance(_, _)
esp_pbuf_skip_advance(chain, offset) ==
    IF chain = <<>> THEN <<>>
    ELSE IF offset < Len(Head(chain))
         THEN <<SubSeq(Head(chain), offset + 1, Len(Head(chain)))>> \o Tail(chain)
         ELSE esp_pbuf_skip_advance(Tail(chain), offset - Len(Head(chain)))

\* ---- constant tables of esp_http_server.c -------------------------------

http_data_method_not_allowed ==
    <<"HTTP/1.1 405 Method Not Allowed", "CR", "LF", "Connection: close", "CR", "LF",
      "Allow: GET", ", POST", "CR", "LF", "CR", "LF">>

\* index files a file provider may hold, each under its own path
ProviderIndexNames ==
    << <<"/", "i", "n", "d", "e", "x", ".", "s", "h", "t", "m", "l">>,
       <<"/", "i", "n", "d", "e", "x", ".", "s", "h", "t", "m">>,
       <<"/", "i", "n", "d", "e", "x", ".", "s", "s", "i">>,
       <<"/", "i", "n", "d", "e", "x", ".", "h", "t", "m", "l">>,
       <<"/", "i", "n", "d", "e", "x", ".", "h", "t", "m">> >>

\* the list as the compiler reads it: "/index.shtm" "/index.ssi" is one literal
http_index_filenames ==
    << <<"/", "i", "n", "d", "e", "x", ".", "s", "h", "t", "m", "l">>,
       <<"/", "i", "n", "d", "e", "x", ".", "s", "h", "t", "m">> \o
       <<"/", "i", "n", "d", "e", "x", ".", "s", "s", "i">>,
       <<"/", "i", "n", "d", "e", "x", ".", "h", "t", "m", "l">>,
       <<"/", "i", "n", "d", "e", "x", ".", "h", "t", "m">> >>

http_ssi_suffixes ==
    << <<".", "s", "h", "t", "m", "l">>,
       <<".", "s", "h", "t", "m">>,
       <<".", "s", "s", "i">> >>

http_404_uris_reversed ==
    << <<"/", "4", "0", "4", ".", "h", "t", "m">>,
       <<"/", "4", "0", "4", ".", "h", "t", "m", "l">>,
       <<"/", "4", "0", "4", ".", "s", "s", "i">>,
       <<"/", "4", "0", "4", ".", "s", "h", "t", "m">>,
       <<"/", "4", "0", "4", ".", "s", "h", "t", "m", "l">> >>

http_404_uris ==
    << <<"/", "4", "0", "4", ".", "s", "h", "t", "m", "l">>,
       <<"/", "4", "0", "4", ".", "s", "h", "t", "m">>,
       <<"/", "4", "0", "4", ".", "s", "s", "i">>,
       <<"/", "4", "0", "4", ".", "h", "t", "m", "l">>,
       <<"/", "4", "0", "4", ".", "h", "t", "m">> >>

\* ---- file provider (esp_http_server_fs) ---------------------------------
\* A file system is a function from paths to [is_static, data].

\* http_fs_data_open_file: 1 when the provider has the path
http_fs_data_open_file(fs, path) == path \in DOMAIN fs

\* the opened file: provider data plus the read position
OpenedFile(fs, path) == [path |-> path, is_static |-> fs[path].is_static, ptr |-> 0]

\* memset(&hs->resp_file, 0x00, sizeof(hs->resp_file))
NoFile == [path |-> <<>>, is_static |-> FALSE, ptr |-> 0]

\* http_fs_data_read_file(hi, file, NULL, 0, NULL): bytes left in the file
http_fs_remaining(fs, file) == Len(fs[file.path].data) - file.ptr

\* http_fs_data_read_file(hi, file, &buff, btr, NULL): the bytes handed over
http_fs_read(fs, file, btr) ==
    SubSeq(fs[file.path].data, file.ptr + 1, file.ptr + Min(btr, http_fs_remaining(fs, file)))

\* ---- user settings (http_init_t) ----------------------------------------

\* hi->cgi: registered handlers, each with the URI its function returns
hi_cgi ==
    << [uri |-> <<"/", "c">>, fn |-> <<"/", "s">>],
       [uri |-> <<"/", "c">>, fn |-> <<"/", "d">>],
       [uri |-> <<"/", "g">>, fn |-> <<"/", "t", ".", "s", "s", "i">>] >>

\* ---- http_parse_uri ------------------------------------------------------

\* result and the new content of http_uri (uri bytes and the terminating 0)
\* the copied URI without the terminating 0: the old content of http_uri follows
uri_unterminated(copy, old_uri) ==
    IF Len(copy) < Len(old_uri)
    THEN copy \o SubSeq(old_uri, Len(copy) + 1, Len(old_uri))
    ELSE copy \o <<"NUL">>

\* http_uri[uri_len] = 0 after the copy
uri_terminated(copy, old_uri) == copy \o <<"NUL">>

http_parse_uri(p, old_uri) ==
    LET pos_s    == esp_pbuf_strfind(p, <<" ">>, 0)
        pos_crlf == esp_pbuf_strfind(p, CRLF, 0)
        pos_e0   == esp_pbuf_strfind(p, <<" ">>, pos_s + 1)
        pos_e    == IF pos_e0 = ESP_SIZET_MAX THEN pos_crlf ELSE pos_e0
        uri_len  == (pos_e - pos_s - 1) % SizeTMod
    IN  IF pos_s = ESP_SIZET_MAX \/ (pos_s # 3 /\ pos_s # 4)
        THEN [res |-> espERR, http_uri |-> old_uri]
        ELSE IF pos_crlf = ESP_SIZET_MAX
        THEN [res |-> espERR, http_uri |-> old_uri]
        ELSE IF uri_len > HTTP_MAX_URI_LEN
        THEN [res |-> espERR, http_uri |-> old_uri]
        ELSE [res |-> espOK,
              http_uri |-> uri_terminated(esp_pbuf_copy(p, uri_len, pos_s + 1), old_uri)]

\* ---- http_get_params -----------------------------------------------------
\* params: 0-based offset into the buffer, -1 for NULL.  Entries of http_params
\* hold offsets (name, value), value -1 for NULL.

\* a search for '=' that runs on into the segments that follow
param_eq_whole(buf, buf1, params) == strchr(buf, params, "=")

\* eq = strchr(eq, '='), after *amp = 0: buf is the buffer before, buf1 after
\* the '&' of the segment was replaced
param_eq(buf, buf1, params) == strchr(buf1, params, "=")

RECURSIVE http_get_params_loop(_, _, _, _)
http_get_params_loop(buf, params, i, acc) ==
    IF params = -1 \/ i >= HTTP_MAX_PARAMS
    THEN [buf |-> buf, http_params |-> acc, cnt |-> Len(acc)]
    ELSE LET amp  == strchr(buf, params, "&")
             buf1 == IF amp # -1 THEN [buf EXCEPT ![amp + 1] = "NUL"] ELSE buf
             next == IF amp # -1 THEN amp + 1 ELSE -1
             eq   == param_eq(buf, buf1, params)
             buf2 == IF eq # -1 THEN [buf1 EXCEPT ![eq + 1] = "NUL"] ELSE buf1
             entry == [name |-> params, value |-> IF eq # -1 THEN eq + 1 ELSE -1]
         IN  Bind(<<buf2, next, Append(acc, entry)>>,
                  LAMBDA n : http_get_params_loop(n[1], n[2], i + 1, n[3]))

http_get_params(buf, params, old_params) ==
    IF params # -1
    THEN Bind(http_get_params_loop(buf, params, 0, <<>>), LAMBDA r :
            [buf |-> r.buf, cnt |-> r.cnt,
             http_params |-> r.http_params
                             \o SubSeq(old_params, r.cnt + 1, Len(old_params))])
    ELSE [buf |-> buf, cnt |-> 0, http_params |-> old_params]

\* ---- http_get_file_from_uri ----------------------------------------------

\* the first name of `names`, from index i on, that the provider opens; the
\* names tried are appended to the log
RECURSIVE ProbeList(_, _, _, _)
ProbeList(fs, names, i, tried) ==
    IF i > Len(names) THEN [opened |-> FALSE, uri |-> <<>>, tried |-> tried]
    ELSE IF http_fs_data_open_file(fs, names[i])
         THEN [opened |-> TRUE, uri |-> names[i], tried |-> Append(tried, names[i])]
         ELSE ProbeList(fs, names, i + 1, Append(tried, names[i]))

\* a NULL char pointer as a handler sees it
NullStr == <<"NULL">>

\* the names and values a handler reads through the first cnt entries of params
ParamStrings(buf, params, cnt) ==
    [i \in 1..cnt |->
        [name |-> CStr(buf, params[i].name),
         value |-> IF params[i].value = -1 THEN NullStr ELSE CStr(buf, params[i].value)]]

\* the handler registered last among those whose uri equals the path, 0 if none
cgi_match_last(path) ==
    LET hits == {i \in 1..Len(hi_cgi) : hi_cgi[i].uri = path}
    IN  IF hits = {} THEN 0 ELSE CHOOSE i \in hits : \A j \in hits : i >= j

\* index of the first registered handler whose uri equals the path (strcmp), 0 if none
cgi_match(path) ==
    LET hits == {i \in 1..Len(hi_cgi) : hi_cgi[i].uri = path}
    IN  IF hits = {} THEN 0 ELSE CHOOSE i \in hits : \A j \in hits : i <= j

\* a suffix test that also accepts a name that is as long as the suffix
has_ssi_suffix_le(uri) ==
    \E i \in 1..Len(http_ssi_suffixes) :
        LET suffix == http_ssi_suffixes[i]
        IN  /\ Len(suffix) <= Len(uri)
            /\ strcmpi_eq(suffix, SubSeq(uri, Len(uri) - Len(suffix) + 1, Len(uri)))

\* the URI has one of the SSI suffixes and is longer than it
has_ssi_suffix(uri) ==
    \E i \in 1..Len(http_ssi_suffixes) :
        LET suffix == http_ssi_suffixes[i]
        IN  /\ Len(suffix) < Len(uri)
            /\ strcmpi_eq(suffix, SubSeq(uri, Len(uri) - Len(suffix) + 1, Len(uri)))

\* s: the server's state (s.hs the HTTP state of the connection, s.http_uri and
\* s.http_params the globals, s.log what the collaborators saw)
http_get_file_from_uri(s, fs) ==
    LET uri0 == CStr(s.http_uri, 0)
        \* index file only, or index file + parameters
        is_index == \/ (Len(uri0) = 1 /\ uri0[1] = "/")
                    \/ (Len(uri0) > 1 /\ uri0[1] = "/" /\ uri0[2] = "?")
        \* request for a specific file and possible parameters
        qm == strchr(s.http_uri, 0, "?")
        buf1 == IF qm # -1 THEN [s.http_uri EXCEPT ![qm + 1] = "NUL"] ELSE s.http_uri
        \* the outcome of the three stages
        Resolve(idx, gp, e404) ==
            LET path == CStr(gp.buf, 0)
                m == cgi_match(path)
                uri1 == IF m # 0 THEN hi_cgi[m].fn ELSE path
                called == IF m # 0
                          THEN <<[handler |-> m, cnt |-> gp.cnt,
                                  params |-> ParamStrings(gp.buf, gp.http_params, gp.cnt)]>>
                          ELSE <<>>
            IN  IF idx.opened
                THEN [opened |-> TRUE, uri |-> idx.uri, tried |-> idx.tried,
                      buf |-> s.http_uri, params |-> s.http_params, cgi |-> <<>>]
                ELSE IF http_fs_data_open_file(fs, uri1)
                THEN [opened |-> TRUE, uri |-> uri1, tried |-> Append(idx.tried, uri1),
                      buf |-> gp.buf, params |-> gp.http_params, cgi |-> called]
                ELSE [opened |-> e404.opened, uri |-> e404.uri,
                      tried |-> Append(idx.tried, uri1) \o e404.tried,
                      buf |-> gp.buf, params |-> gp.http_params, cgi |-> called]
    IN  Bind(<<IF is_index THEN ProbeList(fs, http_index_filenames, 1, <<>>)
               ELSE [opened |-> s.hs.resp_file_opened, uri |-> <<>>, tried |-> <<>>],
               http_get_params(buf1, IF qm # -1 THEN qm + 1 ELSE -1, s.http_params),
               ProbeList(fs, http_404_uris, 1, <<>>)>>,
             LAMBDA t : Bind(Resolve(t[1], t[2], t[3]), LAMBDA r :
                [s EXCEPT !.hs.resp_file = IF r.opened THEN OpenedFile(fs, r.uri) ELSE NoFile,
                          !.hs.resp_file_opened = r.opened,
                          !.hs.is_ssi = r.opened /\ has_ssi_suffix(r.uri),
                          !.http_uri = r.buf,
                          !.http_params = r.params,
                          !.log.opens = @ \o r.tried,
                          !.log.fopen = @ + Cardinality({i \in 1..Len(r.tried) :
                                              http_fs_data_open_file(fs, r.tried[i])}),
                          !.log.cgi = @ \o r.cgi]))

\* ---- HTTP state and connection -------------------------------------------

\* scaled-down configuration of the SSI engine
HTTP_SSI_TAG_START == <<"<", "!", "-", "-", "#">>
HTTP_SSI_TAG_END == <<"-", "-", ">">>
HTTP_SSI_TAG_START_LEN == Len(HTTP_SSI_TAG_START)
HTTP_SSI_TAG_END_LEN == Len(HTTP_SSI_TAG_END)
HTTP_SSI_TAG_MAX_LEN == 2
SsiTagBuffLen == HTTP_SSI_TAG_START_LEN + HTTP_SSI_TAG_END_LEN + HTTP_SSI_TAG_MAX_LEN + 1

\* http_state_t after esp_mem_calloc: every field zero
ZeroHs ==
    [valid |-> TRUE, p |-> <<>>, headers_received |-> FALSE,
     req_method |-> "HTTP_METHOD_NOTALLOWED",
     content_length |-> 0, content_received |-> 0,
     resp_file |-> NoFile, resp_file_opened |-> FALSE,
     buff |-> <<>>, buff_len |-> 0, buff_ptr |-> 0,
     written_total |-> 0, sent_total |-> 0, process_resp |-> FALSE,
     is_ssi |-> FALSE, ssi_state |-> "HTTP_SSI_STATE_WAIT_BEGIN",
     ssi_tag_buff |-> [i \in 1..SsiTagBuffLen |-> "NUL"],
     ssi_tag_buff_ptr |-> 0, ssi_tag_buff_written |-> 0, ssi_tag_len |-> 0,
     conn_mem_available |-> 0]

\* hs == NULL
NoHs == [ZeroHs EXCEPT !.valid = FALSE]

\* a connection slot as the server sees it through the esp_conn API:
\* stage   bytes in the write buffer of esp_conn_write, not yet sent
\* pending lengths of the chunks handed to the stack, oldest first
\* out     all bytes handed to the stack so far
\* closes  number of esp_conn_close requests
\* arg     the user argument of the slot: "null", or "hs" once esp_conn_set_arg
\*         stored the pointer to the HTTP state
NoConn == [state |-> "idle", stage |-> <<>>, pending |-> <<>>, out |-> <<>>, closes |-> 0,
           arg |-> "null"]

\* what the collaborators of the server saw
\* inflight: runs of the pump past its guard with written_total # sent_total
\* heap: response buffers taken from esp_mem_alloc and not yet freed
\* bad_frees: esp_mem_free calls with a pointer that is not such a buffer
\* others: the DATA_RECV callback of another connection ran since this one began
\* over: esp_conn_write calls with more bytes than conn_mem_available
\* partial: flushes of a mismatched tag buffer that wrote only a part of it
\* sent_freed: response buffers freed while a chunk esp_conn_send took from
\*         them was still with the stack (queued or being sent)
\* bad_sends: calls of esp_conn_send with an argument its assertions reject
\* uaf: callbacks that took a freed HTTP state from esp_conn_get_arg
\* fopen: calls of http_fs_data_open_file that opened a file
\* fclose: calls of http_fs_data_close_file
\* parsed: content of http_uri after each successful http_parse_uri
\* midtag: writes from the tag buffer at the start of send_response_ssi made
\*         while a tag was being collected (ssi_state is not WAIT_BEGIN)
NoLog ==
    [opens |-> <<>>, cgi |-> <<>>, post |-> <<>>, ssi |-> <<>>, sends |-> <<>>,
     n405 |-> 0, rejected |-> 0, send_errs |-> 0, alloc_failed |-> 0, allocs |-> 0,
     frees |-> 0, lost |-> 0, inflight |-> 0, heap |-> 0, bad_frees |-> 0, others |-> FALSE, over |-> 0, partial |-> 0,
     midtag |-> 0, parsed |-> <<>>, fopen |-> 0, fclose |-> 0, uaf |-> 0, bad_sends |-> 0,
     sent_freed |-> 0]

\* the input conditions esp_conn_send asserts; conn and bw are "NULL" or a
\* pointer, data is the byte sequence (empty for NULL), btw its length
conn_send_asserts(c, data, btw, bw) ==
    /\ c # "NULL"
    /\ data # <<>>
    /\ btw > 0
    /\ bw # "NULL"

\* esp_conn_send(hs->conn, data, btw, NULL, 0) with result res
esp_conn_send(s, data, res) ==
    Bind([s EXCEPT !.log.bad_sends =
                       IF conn_send_asserts("hs->conn", data, Len(data), "NULL")
                       THEN @ ELSE @ + 1],
         LAMBDA s0 :
            IF res = espOK
            THEN [s0 EXCEPT !.conn.out = @ \o data,
                            !.conn.pending = Append(@, Len(data)),
                            !.log.sends = Append(@, data)]
            ELSE [s0 EXCEPT !.log.rejected = @ + 1])

\* esp_conn_close(conn, 0)
esp_conn_close(s) == [s EXCEPT !.conn.closes = @ + 1]

\* the write buffer is handed to the stack
conn_flush(c) ==
    IF c.stage = <<>> THEN c
    ELSE [c EXCEPT !.out = @ \o c.stage, !.pending = Append(@, Len(c.stage)),
                   !.stage = <<>>]

\* bytes appended to the write buffer one by one; a full buffer is flushed.
\* wmem: a new write buffer can be allocated during this callback
RECURSIVE conn_append(_, _, _)
conn_append(c, data, wmem) ==
    IF data = <<>> THEN [conn |-> c, lost |-> 0]
    ELSE IF c.stage = <<>> /\ ~wmem THEN [conn |-> c, lost |-> Len(data)]
    ELSE Bind([c EXCEPT !.stage = Append(@, Head(data))], LAMBDA c1 :
            Bind(IF Len(c1.stage) >= ESP_CFG_CONN_MAX_DATA_LEN THEN conn_flush(c1) ELSE c1,
                 LAMBDA c2 : conn_append(c2, Tail(data), wmem)))

\* esp_conn_write(hs->conn, data, len, flush, &hs->conn_mem_available)
esp_conn_write(s, data, flush, wmem) ==
    Bind(conn_append(s.conn, data, wmem), LAMBDA a :
        Bind(IF flush THEN conn_flush(a.conn) ELSE a.conn, LAMBDA c1 :
            [s EXCEPT !.conn = c1,
                      !.log.over = IF Len(data) > s.hs.conn_mem_available THEN @ + 1 ELSE @,
                      !.hs.conn_mem_available =
                          IF c1.stage # <<>> THEN ESP_CFG_CONN_MAX_DATA_LEN - Len(c1.stage)
                          ELSE IF wmem THEN ESP_CFG_CONN_MAX_DATA_LEN ELSE 0,
                      !.log.lost = @ + a.lost]))

\* esp_http_server_write(hs, data, len)
esp_http_server_write(s, data, wmem) ==
    Bind(esp_conn_write(s, data, FALSE, wmem), LAMBDA s1 :
        [s1 EXCEPT !.hs.written_total = @ + Len(data)])

\* ---- read_resp_file ------------------------------------------------------

\* the do-while of read_resp_file: the buffer size that could be allocated when
\* the largest free block is mem; buff_len is the last size tried
RECURSIVE alloc_halving(_, _, _)
alloc_halving(len, mem, tried) ==
    IF len <= mem
    THEN [ok |-> TRUE, buff_len |-> len, tries |-> Len(tried) + 1, sizes |-> Append(tried, len)]
    ELSE IF (len \div 2) > MinAllocLen
         THEN alloc_halving(len \div 2, mem, Append(tried, len))
         ELSE [ok |-> FALSE, buff_len |-> len, tries |-> Len(tried) + 1,
               sizes |-> Append(tried, len)]

\* esp_mem_free((void *)hs->buff): the buffer of a dynamic file goes back to the
\* heap; the pointer of a static file is not a block of the heap
esp_mem_free_buff(s) ==
    IF ~s.hs.resp_file.is_static /\ s.log.heap > 0
    THEN [s EXCEPT !.log.frees = @ + 1, !.log.heap = @ - 1,
                   !.log.sent_freed = IF ~s.hs.is_ssi /\ s.conn.pending # <<>>
                                      THEN @ + 1 ELSE @]
    ELSE [s EXCEPT !.log.bad_frees = @ + 1]

\* read_resp_file hands the old buffer to esp_mem_free
read_frees_buff_always(h) == TRUE

read_frees_buff(h) == ~h.resp_file.is_static

\* mem: size of the largest block esp_mem_alloc can hand out
read_resp_file(s, fs, mem) ==
    IF ~s.hs.resp_file_opened THEN s
    ELSE
    LET h == s.hs
        \* something in the buffer: free it (dynamic file) and reset the pointer
        s0  == IF h.buff # <<>> /\ read_frees_buff(h) THEN esp_mem_free_buff(s) ELSE s
        s1  == [s0 EXCEPT !.hs.buff_ptr = 0, !.hs.buff = <<>>]
        len == http_fs_remaining(fs, h.resp_file)
    IN  IF len = 0 THEN s1
        ELSE IF h.resp_file.is_static
        THEN LET data == http_fs_read(fs, h.resp_file, len)
             IN  [s1 EXCEPT !.hs.buff = data, !.hs.buff_len = Len(data),
                            !.hs.resp_file.ptr = @ + Len(data)]
        ELSE LET a == alloc_halving(Min(len, ESP_CFG_CONN_MAX_DATA_LEN), mem, <<>>)
                 data == http_fs_read(fs, h.resp_file, a.buff_len)
             IN  IF a.ok
                 THEN [s1 EXCEPT !.hs.buff = data, !.hs.buff_len = a.buff_len,
                                 !.hs.resp_file.ptr = @ + Len(data),
                                 !.log.allocs = @ + 1,
                                 !.log.heap = @ + 1,
                                 !.log.alloc_failed = @ + a.tries - 1]
                 ELSE [s1 EXCEPT !.hs.buff_len = a.buff_len,
                                 !.log.alloc_failed = @ + a.tries]

\* ---- send_response_no_ssi ------------------------------------------------

\* the value added to written_total for a chunk esp_conn_send took with result res
written_after_send(res, buff_len) == IF res = espOK THEN buff_len ELSE 0

\* in: the outcomes of this callback's calls into the stack and the allocator
send_response_no_ssi(s, fs, in) ==
    Bind(IF s.hs.buff = <<>> \/ s.hs.written_total = s.hs.sent_total
         THEN read_resp_file(s, fs, in.mem) ELSE s,
         LAMBDA s1 :
            IF s1.hs.buff # <<>>
            THEN Bind(esp_conn_send(s1, s1.hs.buff, in.send_res), LAMBDA s2 :
                    [s2 EXCEPT !.hs.written_total =
                                   @ + written_after_send(in.send_res, s1.hs.buff_len)])
            ELSE s1)

\* ---- send_response_ssi ---------------------------------------------------

\* ssi_tag_buff[i] = ch, i counted from 0; a write behind the array is dropped
tag_buff_set(buf, i, ch) == IF i < Len(buf) THEN [buf EXCEPT ![i + 1] = ch] ELSE buf

\* the bytes the user's ssi_fn writes for a tag: as many as a write buffer holds
ssi_fn_output(name) == [i \in 1..ESP_CFG_CONN_MAX_DATA_LEN |-> "R"]

\* hi->ssi_fn(hs, tag_name, tag_len): writes through esp_http_server_write
ssi_fn(s, name, len, wmem) ==
    LET s1 == [s EXCEPT !.log.ssi = Append(@, [name |-> name, len |-> len])]
    IN  esp_http_server_write(s1, ssi_fn_output(name), wmem)

\* the switch on hs->ssi_state for one character: the new state and `reset`
ssi_switch(s, ch, wmem) ==
    LET h   == s.hs
        ptr == h.ssi_tag_buff_ptr
        put == [s EXCEPT !.hs.ssi_tag_buff = tag_buff_set(@, ptr, ch),
                         !.hs.ssi_tag_buff_ptr = ptr + 1]
        in_tag == (ptr - HTTP_SSI_TAG_START_LEN) % SizeTMod
        in_end == (ptr - HTTP_SSI_TAG_START_LEN - h.ssi_tag_len) % SizeTMod
    IN  CASE h.ssi_state = "HTTP_SSI_STATE_WAIT_BEGIN" ->
               IF ch = HTTP_SSI_TAG_START[1]
               THEN [s |-> [s EXCEPT !.hs.ssi_tag_buff = tag_buff_set(@, 0, ch),
                                     !.hs.ssi_tag_buff_ptr = 1,
                                     !.hs.ssi_state = "HTTP_SSI_STATE_BEGIN"],
                     reset |-> FALSE]
               ELSE [s |-> s, reset |-> TRUE]
          [] h.ssi_state = "HTTP_SSI_STATE_BEGIN" ->
               IF ptr < HTTP_SSI_TAG_START_LEN /\ ch = HTTP_SSI_TAG_START[ptr + 1]
               THEN [s |-> IF ptr + 1 = HTTP_SSI_TAG_START_LEN
                           THEN [put EXCEPT !.hs.ssi_state = "HTTP_SSI_STATE_TAG",
                                            !.hs.ssi_tag_len = 0]
                           ELSE put,
                     reset |-> FALSE]
               ELSE [s |-> s, reset |-> TRUE]
          [] h.ssi_state = "HTTP_SSI_STATE_TAG" ->
               IF ch = HTTP_SSI_TAG_END[1]
               THEN [s |-> [put EXCEPT !.hs.ssi_state = "HTTP_SSI_STATE_END"],
                     reset |-> FALSE]
               ELSE IF in_tag < HTTP_SSI_TAG_MAX_LEN
               THEN [s |-> [put EXCEPT !.hs.ssi_tag_len = @ + 1], reset |-> FALSE]
               ELSE [s |-> s, reset |-> TRUE]
          [] h.ssi_state = "HTTP_SSI_STATE_END" ->
               IF in_end < HTTP_SSI_TAG_END_LEN /\ ch = HTTP_SSI_TAG_END[in_end + 1]
               THEN IF ptr + 1 = HTTP_SSI_TAG_START_LEN + h.ssi_tag_len + HTTP_SSI_TAG_END_LEN
                    THEN LET name == SubSeq(put.hs.ssi_tag_buff, HTTP_SSI_TAG_START_LEN + 1,
                                            HTTP_SSI_TAG_START_LEN + h.ssi_tag_len)
                             term == [put EXCEPT !.hs.ssi_tag_buff =
                                          tag_buff_set(@, HTTP_SSI_TAG_START_LEN + h.ssi_tag_len, "NUL")]
                             s1 == ssi_fn(term, name, h.ssi_tag_len, wmem)
                         IN  [s |-> [s1 EXCEPT !.hs.ssi_state = "HTTP_SSI_STATE_WAIT_BEGIN",
                                               !.hs.ssi_tag_len = 0,
                                               !.hs.ssi_tag_buff_ptr = 0],
                              reset |-> FALSE]
                    ELSE [s |-> put, reset |-> FALSE]
               ELSE [s |-> s, reset |-> TRUE]
          [] OTHER -> [s |-> s, reset |-> FALSE]

\* if (reset) { ... }: flush the tag buffer, then the current byte
ssi_reset(s, ch, wmem) ==
    LET ptr == s.hs.ssi_tag_buff_ptr
        len == Min(ptr, s.hs.conn_mem_available)
        flushed == IF ptr # 0
                   THEN Bind(esp_conn_write(s, SubSeq(s.hs.ssi_tag_buff, 1, len), FALSE, wmem),
                             LAMBDA w :
                                [w EXCEPT !.hs.written_total = @ + len,
                                          !.hs.ssi_tag_buff_written = len,
                                          !.hs.ssi_tag_buff_ptr = IF len = ptr THEN 0 ELSE @,
                                          !.log.partial = IF len = ptr THEN @ ELSE @ + 1])
                   ELSE s
    IN  Bind(flushed, LAMBDA s1 :
            Bind(IF s1.hs.conn_mem_available # 0
                 THEN Bind(esp_conn_write(s1, <<ch>>, FALSE, wmem), LAMBDA w :
                          [w EXCEPT !.hs.written_total = @ + 1, !.hs.buff_ptr = @ + 1])
                 ELSE s1,
                 LAMBDA s2 : [s2 EXCEPT !.hs.ssi_state = "HTTP_SSI_STATE_WAIT_BEGIN"]))

\* while (hs->buff_ptr < hs->buff_len && hs->conn_mem_available) { ... }
RECURSIVE ssi_loop(_, _)
ssi_loop(s, wmem) ==
    IF ~(s.hs.buff_ptr < s.hs.buff_len /\ s.hs.conn_mem_available # 0) THEN s
    ELSE LET ch == s.hs.buff[s.hs.buff_ptr + 1]
         IN  Bind(ssi_switch(s, ch, wmem), LAMBDA r :
                Bind(IF r.reset THEN ssi_reset(r.s, ch, wmem)
                     ELSE [r.s EXCEPT !.hs.buff_ptr = @ + 1],
                     LAMBDA s1 : ssi_loop(s1, wmem)))

send_response_ssi(s, fs, in) ==
    LET \* send the rest of the tag buffer
        SendRest(s0) ==
            LET written == s0.hs.ssi_tag_buff_written
                len == Min(s0.hs.ssi_tag_buff_ptr - written, s0.hs.conn_mem_available)
            IN  IF written < s0.hs.ssi_tag_buff_ptr /\ len # 0
                THEN Bind(esp_conn_write(s0, SubSeq(s0.hs.ssi_tag_buff, written + 1,
                                                    written + len), FALSE, in.wmem),
                          LAMBDA w :
                             [w EXCEPT !.hs.written_total = @ + len,
                                       !.hs.ssi_tag_buff_written = written + len,
                                       !.hs.ssi_tag_buff_ptr =
                                           IF written + len = @ THEN 0 ELSE @,
                                       !.log.midtag =
                                           IF s0.hs.ssi_state = "HTTP_SSI_STATE_WAIT_BEGIN"
                                           THEN @ ELSE @ + 1])
                ELSE s0
        \* read more data
        ReadMore(s1) ==
            IF s1.hs.buff = <<>> \/ s1.hs.buff_ptr = s1.hs.buff_len
            THEN read_resp_file(s1, fs, in.mem) ELSE s1
        \* process the buffer
        Process(s2) == IF s2.hs.buff # <<>> THEN ssi_loop(s2, in.wmem) ELSE s2
    IN  \* available memory in the output buffer first, flush to output last
        Bind(esp_conn_write(s, <<>>, FALSE, in.wmem), LAMBDA s0 :
          Bind(SendRest(s0), LAMBDA s1 :
            Bind(ReadMore(s1), LAMBDA s2 :
              Bind(Process(s2), LAMBDA s3 :
                esp_conn_write(s3, <<>>, TRUE, in.wmem)))))

\* ---- send_response -------------------------------------------------------

send_response(s, fs, in) ==
    IF \/ ~s.hs.process_resp
       \/ (s.hs.written_total # 0 /\ s.hs.written_total # s.hs.sent_total)
    THEN s
    ELSE Bind([s EXCEPT !.log.inflight =
                   IF s.hs.written_total # s.hs.sent_total THEN @ + 1 ELSE @],
              LAMBDA s0 :
    IF s0.hs.resp_file_opened
    THEN Bind(IF s0.hs.is_ssi THEN send_response_ssi(s0, fs, in)
              ELSE send_response_no_ssi(s0, fs, in),
              LAMBDA s1 : IF s1.hs.buff = <<>> THEN esp_conn_close(s1) ELSE s1)
    ELSE IF s0.hs.req_method = "HTTP_METHOD_NOTALLOWED"
    THEN Bind(esp_conn_send(s0, http_data_method_not_allowed, in.send_res), LAMBDA w :
            \* written_total is not set
            esp_conn_close([w EXCEPT !.log.n405 = IF in.send_res = espOK THEN @ + 1 ELSE @]))
    ELSE esp_conn_close(s0))

\* ---- http_evt_cb ---------------------------------------------------------

\* an entry of the log of the POST callbacks
PostEvt(ev, data, len) == [ev |-> ev, data |-> data, len |-> len]

\* http_post_send_to_user(hs, pbuf, offset); hi->post_data_fn is registered
http_post_send_to_user(s, pbuf, offset) ==
    LET new_pbuf == esp_pbuf_skip_advance(pbuf, offset)
    IN  IF new_pbuf # <<>>
        THEN [s EXCEPT !.log.post = Append(@, PostEvt("data", pbuf_linear(new_pbuf), 0))]
        ELSE s

\* the body of the POST request is complete
post_body_complete_early(h) == h.content_received > 0

post_body_complete(h) == h.content_received >= h.content_length

\* position of the first body byte, pos being the position of CRLF CRLF
post_data_pos_short(pos) == pos + 2

post_data_pos(pos) == pos + 4

Digits == <<"0", "1", "2", "3", "4", "5", "6", "7", "8", "9">>

is_digit(ch) == \E d \in 1..Len(Digits) : Digits[d] = ch

digit_val(ch) == (CHOOSE d \in 1..Len(Digits) : Digits[d] = ch) - 1

\* while (ch >= '0' && ch <= '9') { ... }
RECURSIVE parse_number(_, _, _)
parse_number(p, pos, acc) ==
    LET g == esp_pbuf_get_at(p, pos)
    IN  IF g.ok /\ is_digit(g.ch)
        THEN parse_number(p, pos + 1, 10 * acc + digit_val(g.ch))
        ELSE acc

\* the value of the Content-Length header, 0 when there is none
parse_content_length(p) ==
    LET pos1 == esp_pbuf_strfind(p, <<"C", "o", "n", "t", "e", "n", "t", "-", "L", "e", "n", "g", "t", "h", ":">>, 0)
        pos2 == esp_pbuf_strfind(p, <<"c", "o", "n", "t", "e", "n", "t", "-", "l", "e", "n", "g", "t", "h", ":">>, 0)
        pos  == IF pos1 # ESP_SIZET_MAX THEN pos1 ELSE pos2
        g    == esp_pbuf_get_at(p, pos + 15)
        from == IF g.ok /\ g.ch = " " THEN pos + 16 ELSE pos + 15
    IN  IF pos = ESP_SIZET_MAX THEN 0
        ELSE IF esp_pbuf_get_at(p, from).ok THEN parse_number(p, from, 0) ELSE 0

\* request method is POST: headers are complete at pos
recv_post_headers(s, pos) ==
    LET p == s.hs.p
        data_pos == post_data_pos(pos)
        got == (esp_pbuf_length(p) - data_pos) % SizeTMod
    IN  Bind(parse_content_length(p), LAMBDA content_length :
          Bind([s EXCEPT !.hs.req_method = "HTTP_METHOD_POST",
                         !.hs.content_length = content_length],
               LAMBDA s1 :
                 IF content_length = 0 THEN [s1 EXCEPT !.hs.process_resp = TRUE]
                 ELSE Bind([s1 EXCEPT !.log.post =
                               Append(@, PostEvt("start", CStr(s.http_uri, 0), content_length))],
                           LAMBDA s2 :
                             IF got = 0 THEN s2
                             ELSE Bind(http_post_send_to_user(
                                           [s2 EXCEPT !.hs.content_received = got], p, data_pos),
                                       LAMBDA s3 :
                                         IF post_body_complete(s3.hs)
                                         THEN [s3 EXCEPT !.hs.process_resp = TRUE,
                                                         !.log.post =
                                                             Append(@, PostEvt("end", <<>>, 0))]
                                         ELSE s3))))

\* headers not yet received: the packet joins the chain
recv_headers(s, p, fs) ==
    LET chain == Append(s.hs.p, p)
        Method(s1, pos) ==
            IF esp_pbuf_strcmp_eq(chain, <<"P", "O", "S", "T", " ">>)
            THEN recv_post_headers(s1, pos)
            ELSE IF esp_pbuf_strcmp_eq(chain, <<"G", "E", "T", " ">>)
            THEN [s1 EXCEPT !.hs.req_method = "HTTP_METHOD_GET", !.hs.process_resp = TRUE]
            ELSE [s1 EXCEPT !.hs.req_method = "HTTP_METHOD_NOTALLOWED",
                            !.hs.process_resp = TRUE]
    IN  Bind(esp_pbuf_strfind(chain, CRLF \o CRLF, 0), LAMBDA pos :
          IF pos = ESP_SIZET_MAX THEN [s EXCEPT !.hs.p = chain]
          ELSE Bind(http_parse_uri(chain, s.http_uri), LAMBDA pu :
                 Bind([s EXCEPT !.hs.p = chain, !.hs.headers_received = TRUE,
                                !.http_uri = pu.http_uri,
                                !.log.parsed = IF pu.res = espOK
                                               THEN Append(@, pu.http_uri) ELSE @],
                      LAMBDA s1 :
                        Bind(Method(s1, pos), LAMBDA s2 :
                          IF pu.res = espOK /\ s2.hs.req_method # "HTTP_METHOD_NOTALLOWED"
                          THEN http_get_file_from_uri(s2, fs)
                          ELSE s2))))

\* headers already received: request data
recv_data(s, p) ==
    IF s.hs.req_method = "HTTP_METHOD_POST" /\ s.hs.content_received < s.hs.content_length
    THEN Bind(http_post_send_to_user(
                  [s EXCEPT !.hs.content_received = @ + esp_pbuf_length(<<p>>)], <<p>>, 0),
              LAMBDA s1 :
                IF post_body_complete(s1.hs)
                THEN [s1 EXCEPT !.hs.process_resp = TRUE,
                                !.log.post = Append(@, PostEvt("end", <<>>, 0))]
                ELSE s1)
    ELSE s

\* case ESP_CB_CONN_ACTIVE without the close request
evt_conn_active_noclose(s, alloc_ok) ==
    IF alloc_ok THEN [s EXCEPT !.hs = ZeroHs, !.conn.arg = "hs"]
    ELSE [s EXCEPT !.log.alloc_failed = @ + 1]

\* case ESP_CB_CONN_ACTIVE
evt_conn_active(s, alloc_ok) ==
    IF alloc_ok THEN [s EXCEPT !.hs = ZeroHs, !.conn.arg = "hs"]
    ELSE esp_conn_close([s EXCEPT !.log.alloc_failed = @ + 1])

\* case ESP_CB_CONN_DATA_RECV
evt_conn_data_recv(s, p, fs, in) ==
    IF s.hs.valid
    THEN Bind(IF ~s.hs.headers_received THEN recv_headers(s, p, fs) ELSE recv_data(s, p),
              LAMBDA s1 : IF s1.hs.process_resp THEN send_response(s1, fs, in) ELSE s1)
    ELSE esp_conn_close(s)

\* case ESP_CB_CONN_DATA_SENT
evt_conn_data_sent(s, sent, fs, in) ==
    IF s.hs.valid
    THEN Bind([s EXCEPT !.hs.sent_total = @ + sent], LAMBDA s1 : send_response(s1, fs, in))
    ELSE esp_conn_close(s)

\* case ESP_CB_CONN_DATA_SEND_ERR without the close request
evt_conn_data_send_err_noclose(s) == [s EXCEPT !.log.send_errs = @ + 1]

\* case ESP_CB_CONN_DATA_SEND_ERR
evt_conn_data_send_err(s) == esp_conn_close([s EXCEPT !.log.send_errs = @ + 1])

\* case ESP_CB_CONN_POLL
evt_conn_poll(s, fs, in) ==
    IF s.hs.valid THEN send_response(s, fs, in) ELSE esp_conn_close(s)

\* the connection closes while a POST body is still expected
post_unfinished_any(h) == h.req_method = "HTTP_METHOD_POST"

post_unfinished(h) ==
    h.req_method = "HTTP_METHOD_POST" /\ h.content_received < h.content_length

\* a CLOSED handler that leaves the response file open
closes_file_never(h) == FALSE

\* if (hs->resp_file_opened) { ... http_fs_data_close_file(hi, &hs->resp_file)
closes_file(h) == h.resp_file_opened

\* case ESP_CB_CONN_CLOSED
evt_conn_closed(s) ==
    IF s.hs.valid
    THEN LET h == s.hs
             unfinished == post_unfinished(h)
             freed == h.resp_file_opened /\ ~h.resp_file.is_static /\ h.buff # <<>>
             s1 == IF freed THEN esp_mem_free_buff(s) ELSE s
         IN  [s1 EXCEPT !.hs = NoHs,
                        !.log.fclose = IF closes_file(h) THEN @ + 1 ELSE @,
                        !.log.post = IF unfinished THEN Append(@, PostEvt("end", <<>>, 0))
                                     ELSE @]
    ELSE s

\* http_evt_cb for an event of a slot whose HTTP state was freed by an earlier
\* CLOSED: hs = esp_conn_get_arg(conn).  With the argument NULL the cases close
\* (CLOSED does nothing); with the argument still set every case but
\* DATA_SEND_ERR goes on with the freed state
evt_after_closed(s, ev) ==
    IF s.conn.arg # "null" THEN [s EXCEPT !.log.uaf = @ + 1]
    ELSE IF ev = "ESP_CB_CONN_CLOSED" THEN s
    ELSE esp_conn_close(s)

\* ---- the client, the file provider and the stack --------------------------

\* close requests after which the stack delivers no further event but CLOSED
MaxCloses == 2

\* packets a request is split into, at most
MaxPackets == 3

\* outcomes of the calls one callback makes into the stack and the allocator:
\* send_res  result of esp_conn_send
\* mem       largest block esp_mem_alloc can hand out
\* wmem      whether esp_conn_write can allocate a write buffer
Inputs == [send_res : {espOK, espERR}, mem : {0, ESP_CFG_CONN_MAX_DATA_LEN}, wmem : BOOLEAN]

\* request line and headers, then the body
RequestBytes(method, uri, headers, body) ==
    method \o <<" ">> \o uri \o <<" ", "H", "T", "T", "P", "/", "1", ".", "0">> \o CRLF \o headers \o CRLF \o body

\* all ways to cut a byte sequence into at most k non-empty packets
RECURSIVE Splits(_, _)
Splits(bytes, k) ==
    IF k <= 1 \/ Len(bytes) <= 1 THEN {<<bytes>>}
    ELSE {<<bytes>>} \cup
         UNION { { <<SubSeq(bytes, 1, i)>> \o r :
                     r \in Splits(SubSeq(bytes, i + 1, Len(bytes)), k - 1) } :
                 i \in 1..(Len(bytes) - 1) }

StaticFile(data) == [is_static |-> TRUE, data |-> data]
DynamicFile(data) == [is_static |-> FALSE, data |-> data]

\* a file system with the given paths; the file at names[i] holds its index i
FsOf(names, idxs) ==
    [path \in {names[i] : i \in idxs} |->
        StaticFile(<<"f", Digits[(CHOOSE i \in idxs : names[i] = path) + 1]>>)]

\* files served in the plain GET / POST scenarios
BaseFs ==
    (<<"/", "s">> :> StaticFile(<<"a", "b", "c">>)) @@
    (<<"/", "d">> :> DynamicFile(<<"a", "b", "c">>)) @@
    (<<"/", "e">> :> StaticFile(<<>>)) @@
    (<<"/", "t", ".", "s", "s", "i">> :> DynamicFile(<<"a", "<", "b">>))

\* paths of the index files of the scenarios: five names and the table's entries
IndexNames == ProviderIndexNames \o <<http_index_filenames[2]>>

Scenario(kind, uri, body, bytes, fs, pkts) ==
    [req |-> [kind |-> kind, uri |-> uri, body |-> body, bytes |-> bytes],
     fs |-> fs, rx |-> pkts]

GetScenarios ==
    { Scenario("get", u, <<>>, RequestBytes(<<"G", "E", "T">>, u, <<>>, <<>>), BaseFs,
               <<RequestBytes(<<"G", "E", "T">>, u, <<>>, <<>>)>>) :
        u \in {<<"/", "s">>, <<"/", "d">>, <<"/", "e">>, <<"/", "t", ".", "s", "s", "i">>, <<"/", "c">>, <<"/", "c", "?", "a", "=", "1", "&", "b">>, <<"/", "g">>, <<"/", "C">>} }

PutScenarios ==
    { Scenario("put", <<"/", "s">>, <<>>, RequestBytes(<<"P", "U", "T">>, <<"/", "s">>, <<>>, <<>>), BaseFs,
               <<RequestBytes(<<"P", "U", "T">>, <<"/", "s">>, <<>>, <<>>)>>) }

MissingScenarios ==
    { Scenario("missing", <<"/", "m">>, <<>>, RequestBytes(<<"G", "E", "T">>, <<"/", "m">>, <<>>, <<>>),
               FsOf(http_404_uris, idxs),
               <<RequestBytes(<<"G", "E", "T">>, <<"/", "m">>, <<>>, <<>>)>>) :
        idxs \in SUBSET (1..Len(http_404_uris)) }

IndexScenarios ==
    { Scenario("index", u, <<>>, RequestBytes(<<"G", "E", "T">>, u, <<>>, <<>>),
               FsOf(IndexNames, idxs),
               <<RequestBytes(<<"G", "E", "T">>, u, <<>>, <<>>)>>) :
        u \in {<<"/">>, <<"/", "?", "a", "=", "1">>}, idxs \in SUBSET (1..Len(IndexNames)) }

PostBody == <<"A", "B">>

PostBytes == RequestBytes(<<"P", "O", "S", "T">>, <<"/", "p">>, <<"C", "o", "n", "t", "e", "n", "t", "-", "L", "e", "n", "g", "t", "h", ":", " ", "2">> \o CRLF, PostBody)

PostScenarios ==
    { Scenario("post", <<"/", "p">>, PostBody, PostBytes, BaseFs, pkts) :
        pkts \in Splits(PostBytes, MaxPackets) }

\* POST requests for the file /s, cut into fewer packets:
\* post       Content-Length: 2 and the body AB
\* post_over  content-length:2 and the body ABC, one byte more than announced
\* post_none  no Content-Length header, or Content-Length: 0
PostFileRequests ==
    { [kind |-> "post", body |-> PostBody,
       bytes |-> RequestBytes(<<"P", "O", "S", "T">>, <<"/", "s">>, <<"C", "o", "n", "t", "e", "n", "t", "-", "L", "e", "n", "g", "t", "h", ":", " ", "2">> \o CRLF, PostBody)],
      [kind |-> "post_over", body |-> PostBody \o <<"C">>,
       bytes |-> RequestBytes(<<"P", "O", "S", "T">>, <<"/", "s">>, <<"c", "o", "n", "t", "e", "n", "t", "-", "l", "e", "n", "g", "t", "h", ":", "2">> \o CRLF, PostBody \o <<"C">>)],
      [kind |-> "post_none", body |-> <<>>,
       bytes |-> RequestBytes(<<"P", "O", "S", "T">>, <<"/", "s">>, <<>>, <<>>)],
      [kind |-> "post_none", body |-> <<>>,
       bytes |-> RequestBytes(<<"P", "O", "S", "T">>, <<"/", "s">>, <<"C", "o", "n", "t", "e", "n", "t", "-", "L", "e", "n", "g", "t", "h", ":", " ", "0">> \o CRLF, <<>>)] }

\* a request with each of the given ways to cut it into packets
Delivered(r, cuts) == { Scenario(r.kind, <<"/", "s">>, r.body, r.bytes, BaseFs, pkts) : pkts \in cuts }

\* the last three bytes of a request cut in every way, the rest in one packet
TailSplits(bytes) ==
    { <<SubSeq(bytes, 1, Len(bytes) - 3)>> \o b :
        b \in Splits(SubSeq(bytes, Len(bytes) - 2, Len(bytes)), MaxPackets) }

PostFileScenarios ==
    UNION { Delivered(r, Splits(r.bytes, MaxPackets - 1)) : r \in PostFileRequests } \cup
    UNION { Delivered(r, TailSplits(r.bytes)) :
              r \in {q \in PostFileRequests : q.kind = "post_over"} }

\* a tag name of n bytes
TagName(n) == [i \in 1..n |-> "N"]

\* a well-formed tag with a name of n bytes
SsiTag(n) == HTTP_SSI_TAG_START \o TagName(n) \o HTTP_SSI_TAG_END

\* SSI files with one well-formed tag: at the start, in the middle, at the end
SsiTagFiles ==
    { pre \o SsiTag(n) \o post :
        pre \in {<<>>, <<"a">>}, post \in {<<>>, <<"b">>}, n \in {1, HTTP_SSI_TAG_MAX_LEN} }

\* SSI files with one malformed tag: the start marker breaks off, the end marker
\* breaks off, the name is too long, the file ends inside the tag
SsiBadFiles ==
    { <<"a">> \o SubSeq(HTTP_SSI_TAG_START, 1, 3) \o <<"b">>,
      <<"a">> \o HTTP_SSI_TAG_START \o TagName(1) \o SubSeq(HTTP_SSI_TAG_END, 1, 2) \o <<"b">>,
      <<"a">> \o SsiTag(HTTP_SSI_TAG_MAX_LEN + 1) \o <<"b">>,
      <<"a">> \o HTTP_SSI_TAG_START \o TagName(1),
      <<"a">> \o SubSeq(HTTP_SSI_TAG_START, 1, 2) }

SsiPath == <<"/", "t", ".", "s", "s", "i">>

\* GET of an SSI file, kept by the provider as a static or as a dynamic file
SsiGet(kind, files) ==
    { Scenario(kind, SsiPath, <<>>, RequestBytes(<<"G", "E", "T">>, SsiPath, <<>>, <<>>),
               SsiPath :> f,
               <<RequestBytes(<<"G", "E", "T">>, SsiPath, <<>>, <<>>)>>) :
        f \in {StaticFile(d) : d \in files} \cup {DynamicFile(d) : d \in files} }

\* a static SSI file in which a well-formed tag follows a lone first marker byte
SsiBeginFile == <<HTTP_SSI_TAG_START[1]>> \o SsiTag(1)

SsiBeginScenarios ==
    { sc \in SsiGet("ssi_begin", {SsiBeginFile}) : sc.fs[SsiPath].is_static }

SsiScenarios ==
    SsiGet("ssi_tag", SsiTagFiles) \cup SsiGet("ssi_bad", SsiBadFiles) \cup SsiBeginScenarios

\* a URI one byte longer than http_uri can hold
LongUri == <<"/">> \o [i \in 1..HTTP_MAX_URI_LEN |-> "u"]

\* requests whose request line http_parse_uri rejects: the URI is too long
\* (GET, and POST with a body), or the first space is not at offset 3 or 4
BadRequests ==
    { [uri |-> LongUri, bytes |-> RequestBytes(<<"G", "E", "T">>, LongUri, <<>>, <<>>)],
      [uri |-> <<"/", "s">>,
       bytes |-> RequestBytes(<<"D", "E", "L", "E", "T", "E">>, <<"/", "s">>, <<>>, <<>>)],
      [uri |-> LongUri,
       bytes |-> RequestBytes(<<"P", "O", "S", "T">>, LongUri, <<"C", "o", "n", "t", "e", "n", "t", "-", "L", "e", "n", "g", "t", "h", ":", " ", "2">> \o CRLF, PostBody)] }

\* files whose names end like an SSI file or nearly so: an upper-case suffix, a
\* name that is nothing but the suffix, a suffix followed by one more byte
SuffixFs ==
    (<<"/", "a", ".", "S", "S", "I">> :> StaticFile(<<"x">>)) @@
    (<<".", "s", "s", "i">> :> StaticFile(<<"x">>)) @@
    (<<"/", ".", "S", "h", "t", "m">> :> StaticFile(<<"x">>)) @@
    (<<"/", "a", ".", "s", "s", "i", "x">> :> StaticFile(<<"x">>)) @@
    (<<"/", "a", ".", "s", "h", "t", "m", "l">> :> StaticFile(<<"x">>))

\* requests for these files, for one of them with a query string, and for an
\* SSI name the provider does not have
SuffixUris ==
    (DOMAIN SuffixFs) \cup
    { <<"/", "a", ".", "s", "h", "t", "m", "l", "?", "q">>, <<"/", "n", ".", "s", "s", "i">> }

SuffixScenarios ==
    { Scenario("suffix", u, <<>>, RequestBytes(<<"G", "E", "T">>, u, <<>>, <<>>), SuffixFs,
               <<RequestBytes(<<"G", "E", "T">>, u, <<>>, <<>>)>>) : u \in SuffixUris }

\* longest query of the query scenarios
MaxQueryLen == 4

\* the byte sequences of length n over the bytes of a query
RECURSIVE QueryStrings(_)
QueryStrings(n) ==
    IF n = 0 THEN {<<>>}
    ELSE {<<ch>> \o q : ch \in {"a", "=", "&"}, q \in QueryStrings(n - 1)}

\* requests for the CGI path /c with every query of up to MaxQueryLen bytes; the
\* provider has no file
QueryScenarios ==
    { Scenario("query", u, <<>>, RequestBytes(<<"G", "E", "T">>, u, <<>>, <<>>),
               FsOf(http_404_uris, {}),
               <<RequestBytes(<<"G", "E", "T">>, u, <<>>, <<>>)>>) :
        u \in { <<"/", "c", "?">> \o q : q \in UNION {QueryStrings(n) : n \in 0..MaxQueryLen} } }

\* a request line without a version (HTTP/0.9), then the headers
Request09(method, uri, headers) == method \o <<" ">> \o uri \o CRLF \o headers \o CRLF

\* HTTP/0.9 requests for /s: without a header, and with the header A: b
Http09Scenarios ==
    { Scenario("http09", <<"/", "s">>, <<>>, Request09(<<"G", "E", "T">>, <<"/", "s">>, h),
               BaseFs, <<Request09(<<"G", "E", "T">>, <<"/", "s">>, h)>>) :
        h \in {<<>>, <<"A", ":", " ", "b">> \o CRLF} }

BadScenarios ==
    { Scenario("bad", r.uri, <<>>, r.bytes, BaseFs, <<r.bytes>>) : r \in BadRequests } \cup
    UNION { { Scenario("bad", r.uri, <<>>, r.bytes, BaseFs, pkts) : pkts \in TailSplits(r.bytes) } :
              r \in BadRequests }

Scenarios ==
    GetScenarios \cup PutScenarios \cup MissingScenarios \cup IndexScenarios \cup PostScenarios
    \cup PostFileScenarios \cup SsiScenarios \cup BadScenarios \cup SuffixScenarios
    \cup QueryScenarios \cup Http09Scenarios

\* the scenarios in which the server has a second connection: the GET requests
\* of files; `alone` follows the connection in these
Shared == req.kind = "get"

\* a sequence without its first element, the empty one as it is
Rest(q) == IF q = <<>> THEN q ELSE Tail(q)

\* the server's state as the handlers take and return it
Server == [hs |-> hs, http_uri |-> http_uri, http_params |-> http_params,
           conn |-> conn, log |-> log]

Becomes(s) ==
    /\ hs' = s.hs
    /\ http_uri' = s.http_uri
    /\ http_params' = s.http_params
    /\ conn' = s.conn
    /\ log' = s.log

NoParam == [name |-> -1, value |-> -1]

\* no connection, no request: the HTTP side at rest
HttpIdle ==
    /\ hs = NoHs
    /\ http_uri = <<"NUL">>
    /\ http_params = [i \in 1..HTTP_MAX_PARAMS |-> NoParam]
    /\ conn = NoConn
    /\ log = NoLog
    /\ alone = [hs |-> NoHs, http_uri |-> <<"NUL">>,
                http_params |-> [i \in 1..HTTP_MAX_PARAMS |-> NoParam],
                conn |-> NoConn, log |-> NoLog]

HttpInit ==
    /\ HttpIdle
    /\ \E sc \in Scenarios :
          /\ req = sc.req
          /\ fsys = sc.fs
          /\ rx = sc.rx

\* the stack reports a new connection
ConnActive ==
    /\ conn.state = "idle"
    /\ \E alloc_ok \in BOOLEAN :
          \E s1 \in {evt_conn_active([Server EXCEPT !.conn.state = "active"], alloc_ok)},
             a1 \in {IF Shared THEN evt_conn_active([alone EXCEPT !.conn.state = "active"], alloc_ok) ELSE alone} :
              Becomes(s1) /\ alone' = a1
    /\ UNCHANGED <<rx, fsys, req, apiVars, readVars, uartVars>>

\* the next packet of the request arrives
ConnDataRecv ==
    /\ conn.state = "active"
    /\ conn.closes < MaxCloses
    /\ rx # <<>>
    /\ \E in \in Inputs :
          \E s1 \in {evt_conn_data_recv(Server, Head(rx), fsys, in)},
             a1 \in {IF Shared THEN evt_conn_data_recv(alone, Head(rx), fsys, in) ELSE alone} :
              Becomes(s1) /\ alone' = a1
    /\ rx' = Tail(rx)
    /\ UNCHANGED <<fsys, req, apiVars, readVars, uartVars>>

\* the oldest chunk handed to the stack was sent
ConnDataSent ==
    /\ conn.state = "active"
    /\ conn.closes < MaxCloses
    /\ conn.pending # <<>>
    /\ \E in \in Inputs, s0 \in {[Server EXCEPT !.conn.pending = Tail(@)]},
          a0 \in {[alone EXCEPT !.conn.pending = Rest(@)]} :
          \E s1 \in {evt_conn_data_sent(s0, Head(conn.pending), fsys, in)},
             a1 \in {IF Shared THEN evt_conn_data_sent(a0, Head(conn.pending), fsys, in) ELSE alone} :
              Becomes(s1) /\ alone' = a1
    /\ UNCHANGED <<rx, fsys, req, apiVars, readVars, uartVars>>

\* the oldest chunk handed to the stack could not be sent
ConnDataSendErr ==
    /\ conn.state = "active"
    /\ conn.closes < MaxCloses
    /\ conn.pending # <<>>
    /\ \E s1 \in {evt_conn_data_send_err([Server EXCEPT !.conn.pending = Tail(@)])},
          a1 \in {IF Shared THEN evt_conn_data_send_err([alone EXCEPT !.conn.pending = Rest(@)]) ELSE alone} :
          Becomes(s1) /\ alone' = a1
    /\ UNCHANGED <<rx, fsys, req, apiVars, readVars, uartVars>>

\* periodic poll of the connection
ConnPoll ==
    /\ conn.state = "active"
    /\ conn.closes < MaxCloses
    /\ \E in \in Inputs :
          \E s1 \in {evt_conn_poll(Server, fsys, in)}, a1 \in {IF Shared THEN evt_conn_poll(alone, fsys, in) ELSE alone} :
              Becomes(s1) /\ alone' = a1
    /\ UNCHANGED <<rx, fsys, req, apiVars, readVars, uartVars>>

\* the connection was closed, by the server's request or by the remote side
ConnClosed ==
    /\ conn.state = "active"
    /\ \E s1 \in {evt_conn_closed([Server EXCEPT !.conn.state = "closed"])},
          a1 \in {IF Shared THEN evt_conn_closed([alone EXCEPT !.conn.state = "closed"]) ELSE alone} :
          Becomes(s1) /\ alone' = a1
    /\ UNCHANGED <<rx, fsys, req, apiVars, readVars, uartVars>>

\* events of a connection that can reach the callback with its state: all but
\* ACTIVE and DATA_SEND_ERR
StateEvents == {"ESP_CB_CONN_DATA_RECV", "ESP_CB_CONN_DATA_SENT", "ESP_CB_CONN_POLL",
                "ESP_CB_CONN_CLOSED"}

\* the scenarios in which the slot gets a second connection after the first
\* was closed: the GET and PUT requests for files
SlotReused == req.kind \in {"get", "put"}

\* the slot of the closed connection is taken by a new connection and the
\* server cannot allocate its state: the ACTIVE case does not call
\* esp_conn_set_arg.  The stack either hands out the slot with the user argument
\* as the last connection left it, or with the argument reset
ConnReuse ==
    /\ SlotReused
    /\ conn.state = "closed"
    /\ \E reset \in BOOLEAN :
          \E s1 \in {evt_conn_active([Server EXCEPT !.conn.state = "reused",
                          !.conn.arg = IF reset THEN "null" ELSE @], FALSE)},
             a1 \in {IF Shared
                     THEN evt_conn_active([alone EXCEPT !.conn.state = "reused",
                              !.conn.arg = IF reset THEN "null" ELSE @], FALSE)
                     ELSE alone} :
              Becomes(s1) /\ alone' = a1
    /\ UNCHANGED <<rx, fsys, req, apiVars, readVars, uartVars>>

\* an event of the new connection on the reused slot
ConnReusedEvent ==
    /\ conn.state = "reused"
    /\ \E ev \in StateEvents :
          \E s1 \in {evt_after_closed([Server EXCEPT !.conn.state = "late"], ev)},
             a1 \in {IF Shared THEN evt_after_closed([alone EXCEPT !.conn.state = "late"], ev)
                     ELSE alone} :
              Becomes(s1) /\ alone' = a1
    /\ UNCHANGED <<rx, fsys, req, apiVars, readVars, uartVars>>

\* requests another connection of the server may receive meanwhile
OtherRequests ==
    { RequestBytes(<<"G", "E", "T">>, <<"/", "d", "?", "x", "=", "1">>, <<>>, <<>>),
      RequestBytes(<<"G", "E", "T">>, <<"/", "t", ".", "s", "s", "i">>, <<>>, <<>>) }

\* the consumer thread runs the DATA_RECV callback of another connection between
\* two callbacks of this one: http_uri and http_params are written for its
\* request (its response does not touch them)
OtherConn ==
    /\ Shared
    /\ conn.state \in {"idle", "active"}
    /\ \E r \in OtherRequests :
          \E s1 \in {recv_headers([Server EXCEPT !.hs = ZeroHs, !.conn = NoConn,
                                                 !.log = NoLog], r, fsys)} :
              /\ http_uri' = s1.http_uri
              /\ http_params' = s1.http_params
    /\ log' = [log EXCEPT !.others = TRUE]
    /\ UNCHANGED <<hs, conn, rx, fsys, req, alone, apiVars, readVars, uartVars>>

HttpNext ==
    \/ OtherConn
    \/ ConnActive
    \/ ConnDataRecv
    \/ ConnDataSent
    \/ ConnDataSendErr
    \/ ConnPoll
    \/ ConnClosed
    \/ ConnReuse
    \/ ConnReusedEvent

\* ---- read_resp_file by itself ---------------------------------------------

\* bytes left in the file when read_resp_file is called
ReadRemaining == {1, 63, 64, 65, 127, 128, 129, 130, 200, 256, 257, 300}

\* values of ESP_CFG_CONN_MAX_DATA_LEN a build may be configured with
ReadMaxLens == {ESP_CFG_CONN_MAX_DATA_LEN, 128, 256}

\* sizes of the largest block esp_mem_alloc can hand out
ReadMems == {0, 1, 32, 63, 64, 65, 66, 100, 128, 300}

\* the allocation loop has not run: no size was tried
NoRes == [ok |-> FALSE, buff_len |-> 0, tries |-> 0, sizes |-> <<>>]

\* no call of read_resp_file is looked at
NoRead == [remaining |-> 0, max_len |-> 0, mem |-> 0, res |-> NoRes]

ReadIdle == rd = NoRead

ReadInit ==
    \E r \in ReadRemaining, m \in ReadMaxLens, b \in ReadMems :
        rd = [remaining |-> r, max_len |-> m, mem |-> b, res |-> NoRes]

\* the else branch of read_resp_file for a dynamic file with rd.remaining bytes
\* left: the clamp to the maximal length and the do-while loop
ReadAlloc ==
    /\ rd # NoRead
    /\ rd.res = NoRes
    /\ rd' = [rd EXCEPT !.res = alloc_halving(Min(rd.remaining, rd.max_len), rd.mem, <<>>)]
    /\ UNCHANGED <<apiVars, httpVars, uartVars>>

ReadNext == ReadAlloc

\* ---- esp_ll.c of the STM32 port: UART with circular DMA ---------------------

\* sizeof(usart_mem); 0x400 in the source, scaled down
UsartMemSize == 4

\* number of bytes the device sends in one run
MaxRxBytes == 6

\* uint16_t arithmetic of ndtr, curr_pos, to_read, start_pos and old_pos
U16 == 65536

\* no handler is being executed
NoIsr == [pc |-> "none", start_pos |-> 0, ndtr |-> 0, curr_pos |-> 0, to_read |-> 0]

\* no to_read was computed yet
NoRange == [start_pos |-> 0, curr_pos |-> 0, old_pos |-> 0, to_read |-> 0]

\* esp_init has not been called: nothing enabled, DMA stream at its reset state
UartIdle ==
    /\ boot = "start"
    /\ irq_enabled = FALSE
    /\ threads_started = FALSE
    /\ buff_ready = FALSE
    /\ usart_mem = [i \in 1..UsartMemSize |-> 0]
    /\ ndtr = UsartMemSize
    /\ flags = [idle |-> FALSE, ht |-> FALSE, tc |-> FALSE]
    /\ line_busy = FALSE
    /\ old_pos = 0
    /\ isr = NoIsr
    /\ rx_count = 0
    /\ input = <<>>
    /\ last_call = NoRange
    /\ early = 0
    /\ overrun = FALSE

\* the bytes of &usart_mem[start_pos] .. +to_read: those inside usart_mem, and
\* one -1 for all the memory behind usart_mem when the range runs over its end
usart_mem_range(mem, start_pos, to_read) ==
    (IF start_pos >= UsartMemSize THEN <<>>
     ELSE SubSeq(mem, start_pos + 1, Min(start_pos + to_read, UsartMemSize)))
    \o (IF start_pos + to_read > UsartMemSize THEN <<-1>> ELSE <<>>)

\* esp_input(&usart_mem[start_pos], to_read): the stack receives the bytes and
\* stores them into esp.buff
esp_input(start_pos, to_read) ==
    /\ input' = input \o usart_mem_range(usart_mem, start_pos, to_read)
    /\ early' = IF buff_ready THEN early ELSE early + 1

\* esp_ll_init / configure_uart: USART, IDLE interrupt, circular DMA over
\* usart_mem with HT and TC interrupts, both NVIC lines, old_pos = 0; the
\* device is released from reset and the thread sleeps 200 ms
EspLlInit ==
    /\ boot = "start"
    /\ boot' = "ll"
    /\ irq_enabled' = TRUE
    /\ ndtr' = UsartMemSize
    /\ old_pos' = 0
    /\ UNCHANGED <<threads_started, buff_ready, usart_mem, flags, line_busy, isr, rx_count,
                   input, last_call, early>>
    /\ UNCHANGED <<overrun, apiVars, httpVars, readVars>>

\* esp_init: callbacks, semaphore, the two mailboxes and the two threads
EspThreadsCreate ==
    /\ boot = "ll"
    /\ boot' = "threads"
    /\ threads_started' = TRUE
    /\ UNCHANGED <<irq_enabled, buff_ready, usart_mem, ndtr, flags, line_busy, old_pos,
                   isr, rx_count, input, last_call, early>>
    /\ UNCHANGED <<overrun, apiVars, httpVars, readVars>>

\* esp_init: esp_buff_init(&esp.buff, 0x400)
EspBuffInit ==
    /\ boot = "threads"
    /\ boot' = "buff"
    /\ buff_ready' = TRUE
    /\ UNCHANGED <<irq_enabled, threads_started, usart_mem, ndtr, flags, line_busy,
                   old_pos, isr, rx_count, input, last_call, early>>
    /\ UNCHANGED <<overrun, apiVars, httpVars, readVars>>

\* the device sends one byte: the DMA stores it at sizeof(usart_mem) - NDTR,
\* counts NDTR down, reloads it at the end of the lap (circular mode), and
\* raises HT at half of the lap and TC at its end
DmaStore ==
    /\ boot # "start"
    /\ rx_count < MaxRxBytes
    /\ rx_count' = rx_count + 1
    /\ usart_mem' = [usart_mem EXCEPT ![UsartMemSize - ndtr + 1] = rx_count + 1]
    /\ ndtr' = IF ndtr = 1 THEN UsartMemSize ELSE ndtr - 1
    /\ flags' = [flags EXCEPT !.ht = @ \/ (ndtr - 1 = UsartMemSize \div 2),
                              !.tc = @ \/ (ndtr = 1)]
    /\ line_busy' = TRUE
    /\ overrun' = (\/ overrun
                   \/ /\ usart_mem[UsartMemSize - ndtr + 1] # 0
                      /\ \A i \in 1..Len(input) :
                             input[i] # usart_mem[UsartMemSize - ndtr + 1])
    /\ UNCHANGED <<boot, irq_enabled, threads_started, buff_ready, old_pos, isr, input,
                   last_call, early>>
    /\ UNCHANGED <<apiVars, httpVars, readVars>>

\* the line stays idle for one frame after a byte: the USART raises IDLE
LineIdle ==
    /\ boot # "start"
    /\ line_busy
    /\ line_busy' = FALSE
    /\ flags' = [flags EXCEPT !.idle = TRUE]
    /\ UNCHANGED <<boot, irq_enabled, threads_started, buff_ready, usart_mem, ndtr,
                   old_pos, isr, rx_count, input, last_call, early>>
    /\ UNCHANGED <<overrun, apiVars, httpVars, readVars>>

\* ESP_USART_IRQHANDLER, IDLE flag seen: start_pos, ndtr and curr_pos are read.
\* Both interrupts have preemption priority 1, so neither handler interrupts
\* the other, and the DMA stream (subpriority 0) goes first when both are pending.
UsartIrqEnter ==
    /\ irq_enabled
    /\ isr.pc = "none"
    /\ flags.idle
    /\ ~(flags.ht \/ flags.tc)
    /\ isr' = [pc |-> "usart", start_pos |-> old_pos, ndtr |-> ndtr,
               curr_pos |-> (UsartMemSize - ndtr) % U16, to_read |-> 0]
    /\ UNCHANGED <<boot, irq_enabled, threads_started, buff_ready, usart_mem, ndtr, flags,
                   line_busy, old_pos, rx_count, input, last_call, early>>
    /\ UNCHANGED <<overrun, apiVars, httpVars, readVars>>

\* ESP_USART_IRQHANDLER, the rest: IDLE cleared, to_read, old_pos, esp_input
UsartIrqFinish ==
    /\ isr.pc = "usart"
    /\ \E to_read \in {(isr.curr_pos - old_pos + U16) % U16} :
           /\ flags' = [flags EXCEPT !.idle = FALSE]
           /\ last_call' = [start_pos |-> isr.start_pos, curr_pos |-> isr.curr_pos,
                            old_pos |-> old_pos, to_read |-> to_read]
           /\ old_pos' = (old_pos + to_read) % U16
           /\ esp_input(isr.start_pos, to_read)
    /\ isr' = NoIsr
    /\ UNCHANGED <<boot, irq_enabled, threads_started, buff_ready, usart_mem, ndtr,
                   line_busy, rx_count>>
    /\ UNCHANGED <<overrun, apiVars, httpVars, readVars>>

\* ESP_USART_DMA_RX_STREAM_IRQHANDLER entered on HT or TC: start_pos and ndtr
DmaIrqEnter ==
    /\ irq_enabled
    /\ isr.pc = "none"
    /\ flags.ht \/ flags.tc
    /\ isr' = [pc |-> "dma_pos", start_pos |-> old_pos, ndtr |-> ndtr,
               curr_pos |-> 0, to_read |-> 0]
    /\ UNCHANGED <<boot, irq_enabled, threads_started, buff_ready, usart_mem, ndtr, flags,
                   line_busy, old_pos, rx_count, input, last_call, early>>
    /\ UNCHANGED <<overrun, apiVars, httpVars, readVars>>

\* ESP_USART_DMA_RX_STREAM_IRQHANDLER: the TC test on ndtr, curr_pos, to_read
DmaIrqPos ==
    /\ isr.pc = "dma_pos"
    /\ \E n \in {IF flags.tc /\ isr.ndtr = UsartMemSize THEN 0 ELSE isr.ndtr} :
           /\ isr' = [isr EXCEPT !.pc = "dma_flags",
                                 !.ndtr = n,
                                 !.curr_pos = (UsartMemSize - n) % U16,
                                 !.to_read = (UsartMemSize - n - old_pos + U16) % U16]
           /\ last_call' = [start_pos |-> isr.start_pos,
                            curr_pos |-> (UsartMemSize - n) % U16,
                            old_pos |-> old_pos,
                            to_read |-> (UsartMemSize - n - old_pos + U16) % U16]
    /\ UNCHANGED <<boot, irq_enabled, threads_started, buff_ready, usart_mem, ndtr, flags,
                   line_busy, old_pos, rx_count, input, early>>
    /\ UNCHANGED <<overrun, apiVars, httpVars, readVars>>

\* ESP_USART_DMA_RX_STREAM_IRQHANDLER: TC or HT cleared, old_pos, esp_input
DmaIrqFinish ==
    /\ isr.pc = "dma_flags"
    /\ IF flags.tc
       THEN /\ flags' = [flags EXCEPT !.tc = FALSE]
            /\ old_pos' = 0
       ELSE IF flags.ht
       THEN /\ flags' = [flags EXCEPT !.ht = FALSE]
            /\ old_pos' = isr.curr_pos
       ELSE UNCHANGED <<flags, old_pos>>
    /\ esp_input(isr.start_pos, isr.to_read)
    /\ isr' = NoIsr
    /\ UNCHANGED <<boot, irq_enabled, threads_started, buff_ready, usart_mem, ndtr,
                   line_busy, rx_count, last_call>>
    /\ UNCHANGED <<overrun, apiVars, httpVars, readVars>>

UartNext ==
    \/ EspLlInit
    \/ EspThreadsCreate
    \/ EspBuffInit
    \/ DmaStore
    \/ LineIdle
    \/ UsartIrqEnter
    \/ UsartIrqFinish
    \/ DmaIrqEnter
    \/ DmaIrqPos
    \/ DmaIrqFinish

(***************************************************************************)
(* Claims about esp_http_server.c, checked under SpecHttp                  *)
(***************************************************************************)

\* a is an initial part of b
IsPrefix(a, b) == Len(a) <= Len(b) /\ SubSeq(b, 1, Len(a)) = a

\* the file that was opened last, i.e. the response file
ServedPath == log.opens[Len(log.opens)]

\* URI resolution ended with an open response file
FileServed == log.opens # <<>> /\ ServedPath \in DOMAIN fsys

\* no allocation failed and the stack reported no send error
NoTrouble == log.alloc_failed = 0 /\ log.send_errs = 0 /\ log.lost = 0

\* C6: for a GET of an existing non-SSI file, whatever esp_conn_send answers and
\* in whatever order DATA_SENT and POLL arrive, the chunks esp_conn_send accepted
\* are an initial part of the file, and once close is requested they are the
\* whole file (no allocation failure, no send error event).
C6_WholeFile ==
    (req.kind = "get" /\ FileServed /\ ~has_ssi_suffix(ServedPath) /\ NoTrouble) =>
        /\ IsPrefix(conn.out, fsys[ServedPath].data)
        /\ (conn.closes > 0 => conn.out = fsys[ServedPath].data)

\* C7: for a request whose method is neither GET nor POST the 405 response is
\* emitted at most once and close is requested at most once, whatever DATA_SENT
\* and POLL events arrive before CLOSED (the HTTP state was allocated).
C7_Once405 ==
    (req.kind = "put" /\ log.alloc_failed = 0) => (log.n405 <= 1 /\ conn.closes <= 1)

\* the 404 names in the order the server is to try them
C8_Names ==
    <<<<"/", "4", "0", "4", ".", "s", "h", "t", "m", "l">>,
      <<"/", "4", "0", "4", ".", "s", "h", "t", "m">>,
      <<"/", "4", "0", "4", ".", "s", "s", "i">>,
      <<"/", "4", "0", "4", ".", "h", "t", "m", "l">>,
      <<"/", "4", "0", "4", ".", "h", "t", "m">>>>

\* indexes of the names of a list that the file provider exposes
Present(names) == {i \in 1..Len(names) : names[i] \in DOMAIN fsys}

First(idxs) == CHOOSE i \in idxs : \A j \in idxs : i <= j

\* C8: when neither an index file nor the requested path opens, the 404 names
\* are tried in the order /404.shtml, /404.shtm, /404.ssi, /404.html, /404.htm up
\* to the first that opens; that file is the response (only its bytes are sent,
\* all of them before close is requested); when none opens, close is requested
\* and nothing is sent.
C8_NotFoundOrder ==
    (req.kind = "missing" /\ log.opens # <<>>) =>
        IF Present(C8_Names) = {}
        THEN /\ log.opens = <<req.uri>> \o C8_Names
             /\ conn.out = <<>>
             /\ conn.closes >= 1
        ELSE LET first == First(Present(C8_Names))
                 data == fsys[C8_Names[first]].data
             IN  /\ log.opens = <<req.uri>> \o SubSeq(C8_Names, 1, first)
                 /\ hs.valid => (hs.resp_file_opened /\ hs.resp_file.path = C8_Names[first])
                 /\ IsPrefix(conn.out, data)
                 /\ (conn.closes > 0 /\ NoTrouble /\ log.rejected = 0) => conn.out = data

\* a 404 page that is not the first of the list was sent in full, then close requested
C8_Witness ==
    /\ req.kind = "missing"
    /\ Present(C8_Names) # {}
    /\ First(Present(C8_Names)) = 4
    /\ log.opens = <<req.uri>> \o SubSeq(C8_Names, 1, 4)
    /\ conn.out = fsys[C8_Names[4]].data
    /\ conn.closes = 1

\* the index names in the order the server is to try them
C9_Names ==
    <<<<"/", "i", "n", "d", "e", "x", ".", "s", "h", "t", "m", "l">>,
      <<"/", "i", "n", "d", "e", "x", ".", "s", "h", "t", "m">>,
      <<"/", "i", "n", "d", "e", "x", ".", "s", "s", "i">>,
      <<"/", "i", "n", "d", "e", "x", ".", "h", "t", "m", "l">>,
      <<"/", "i", "n", "d", "e", "x", ".", "h", "t", "m">>>>

\* C9: for the URI "/" or "/?..." the five index names are tried, each as its own
\* path, in the order /index.shtml, /index.shtm, /index.ssi, /index.html,
\* /index.htm, and the first one the provider opens is the response file.
C9_IndexOrder ==
    (req.kind = "index" /\ log.opens # <<>> /\ Present(C9_Names) # {}) =>
        LET first == First(Present(C9_Names))
        IN  /\ log.opens = SubSeq(C9_Names, 1, first)
            /\ ServedPath = C9_Names[first]

\* the bytes handed to post_data_fn, in call order
RECURSIVE PostData(_)
PostData(evts) ==
    IF evts = <<>> THEN <<>>
    ELSE (IF Head(evts).ev = "data" THEN Head(evts).data ELSE <<>>) \o PostData(Tail(evts))

PostDataCalls == Len(SelectSeq(log.post, LAMBDA e : e.ev = "data"))

\* C10: for a POST whose body has exactly content_length bytes, however the
\* request is cut into packets, the buffers handed to post_data_fn are, in call
\* order, an initial part of the body, and the whole body once every packet was
\* received.
C10_PostBody ==
    req.kind = "post" =>
        /\ IsPrefix(PostData(log.post), req.body)
        /\ (rx = <<>> /\ log.post # <<>>) => PostData(log.post) = req.body

\* the body arrived partly with the headers and partly in a later packet
C10_Witness ==
    /\ req.kind = "post"
    /\ rx = <<>>
    /\ PostDataCalls = 2
    /\ PostData(log.post) = req.body

\* number of invocations of a POST callback ("start", "data" or "end")
PostCount(ev) == Len(SelectSeq(log.post, LAMBDA e : e.ev = ev))

\* C11: post_end_fn is invoked at most once and only after post_start_fn, and
\* once the connection is closed and its HTTP state freed, every post_start_fn
\* has had its post_end_fn.
C11_StartEnd ==
    /\ PostCount("start") <= 1
    /\ PostCount("end") <= PostCount("start")
    /\ log.post # <<>> => log.post[1].ev = "start"
    /\ (conn.state = "closed" /\ PostCount("start") = 1) => PostCount("end") = 1

\* the connection closed before the body was complete: post_end_fn ran at CLOSED
C11_Witness ==
    /\ conn.state = "closed"
    /\ rx # <<>>
    /\ PostCount("start") = 1
    /\ PostCount("data") = 1
    /\ PostCount("end") = 1
    /\ Len(PostData(log.post)) < log.post[1].len

\* the pump has handed something to the connection, or tried to
PumpWrote == conn.out # <<>> \/ conn.stage # <<>> \/ log.sends # <<>> \/ log.rejected > 0

\* C12: for a POST with a positive Content-Length the callbacks come in the order
\* post_start_fn, post_data_fn (any number), post_end_fn, with nothing after
\* post_end_fn, and the pump writes nothing while content_received is below
\* content_length; for a POST with Content-Length zero or absent no POST callback
\* is invoked and the response starts in the callback that completes the headers.
C12_PostOrder ==
    /\ \A i \in 1..Len(log.post) :
          /\ (log.post[i].ev = "start") <=> (i = 1)
          /\ (log.post[i].ev = "end") => (i = Len(log.post))
    /\ (hs.valid /\ hs.req_method = "HTTP_METHOD_POST"
          /\ hs.content_received < hs.content_length) => ~PumpWrote
    /\ (log.post # <<>> /\ PostCount("end") = 0) => ~PumpWrote
    /\ req.kind = "post_none" =>
          /\ log.post = <<>>
          /\ (hs.valid /\ hs.headers_received) => (log.sends # <<>> \/ log.rejected > 0)

\* a body that came in two packets was handed over in order and the response began
C12_Witness ==
    /\ req.kind = "post"
    /\ PostCount("start") = 1
    /\ PostCount("data") = 2
    /\ log.post[Len(log.post)].ev = "end"
    /\ ServedPath = <<"/", "s">>
    /\ conn.out # <<>>

\* the response file of the SSI scenarios
SsiFile == fsys[SsiPath].data

\* the response is over: the pump requested close
ResponseOver == conn.closes > 0 /\ NoTrouble

\* C13: an SSI file with a well-formed tag at any position is written with the
\* tag replaced by the bytes ssi_fn writes, ssi_fn is invoked exactly once with
\* the name and its length, and no byte of the markers or the name is written.
C13_TagReplaced ==
    (req.kind = "ssi_tag" /\ ResponseOver) =>
        \E pre \in {<<>>, <<"a">>}, post \in {<<>>, <<"b">>}, n \in 1..HTTP_SSI_TAG_MAX_LEN :
            /\ SsiFile = pre \o SsiTag(n) \o post
            /\ conn.out = pre \o ssi_fn_output(TagName(n)) \o post
            /\ log.ssi = <<[name |-> TagName(n), len |-> n]>>

\* C14: a malformed SSI tag is written verbatim, every byte once and in file
\* order, also when the file ends inside the tag; ssi_fn is not invoked.
C14_Verbatim ==
    (req.kind = "ssi_bad" /\ ResponseOver) => (conn.out = SsiFile /\ log.ssi = <<>>)

\* C15: sent_total <= written_total in every reachable HTTP state.
C15_SentLeWritten == hs.valid => hs.sent_total <= hs.written_total

\* C16: for a POST request content_received <= content_length in every state,
\* however the request is cut into packets and however many body bytes come.
C16_ReceivedLeLength ==
    (hs.valid /\ hs.req_method = "HTTP_METHOD_POST") =>
        hs.content_received <= hs.content_length

\* C17: the pump acts only when nothing is in flight: whenever send_response
\* gets past its guard (and so reads the file, writes or requests close),
\* written_total = sent_total held on entry.
C17_NothingInFlight == log.inflight = 0

C19_Active ==
    [][(conn.state = "idle" /\ conn'.state = "active") =>
          \/ /\ hs' = ZeroHs
             /\ conn'.closes = conn.closes
             /\ log' = log
          \/ /\ hs' = NoHs
             /\ conn'.closes = conn.closes + 1
             /\ log' = [log EXCEPT !.alloc_failed = @ + 1]]_vars

\* the allocation failed: nothing attached, close requested, no other event yet
C19_Witness ==
    /\ conn.state = "active"
    /\ ~hs.valid
    /\ conn.closes = 1
    /\ log.alloc_failed = 1
    /\ rx = <<req.bytes>>

\* C20: every failure ends in a close request made in the same callback: a
\* DATA_SEND_ERR event, a buffer (or HTTP state) that cannot be allocated, and
\* the last packet of a request whose request line cannot be parsed; and no
\* file is opened for an unparsed URI.
C20_FailureCloses ==
    [][/\ log'.send_errs > log.send_errs => conn'.closes > conn.closes
       /\ (log'.alloc_failed > log.alloc_failed /\ hs'.buff = <<>>) =>
             conn'.closes > conn.closes
       /\ req.kind = "bad" => log'.opens = <<>>
       /\ (req.kind = "bad" /\ hs.valid /\ rx # <<>> /\ rx' = <<>>) =>
             conn'.closes > conn.closes]_vars

\* a GET with a URI that is too long was answered with a close request
C20_Witness ==
    /\ req.kind = "bad"
    /\ hs.valid
    /\ hs.req_method = "HTTP_METHOD_GET"
    /\ rx = <<>>
    /\ conn.closes = 1
    /\ log.opens = <<>>
    /\ conn.out = <<>>

\* C21: a GET request gets the same response, byte for byte and call for call,
\* whether it is served alone or while another connection's request leaves its
\* URI and parameters in the shared http_uri / http_params between any two of
\* its callbacks.
C21_SameResponse ==
    Shared =>
        /\ conn = alone.conn
        /\ hs = alone.hs
        /\ [log EXCEPT !.others = FALSE] = alone.log

\* /s was served whole although another request had left its parameters in
\* http_params before the request line of this one was parsed
C21_Witness ==
    /\ log.others
    /\ req.uri = <<"/", "s">>
    /\ http_uri = <<"/", "s", "NUL">>
    /\ http_params # alone.http_params
    /\ conn.out = <<"a", "b", "c">>
    /\ conn.closes = 1

\* C22: a byte that breaks off the start marker in state BEGIN is processed again
\* from WAIT_BEGIN, so the tag that begins at that byte is recognised: the file
\* "<" followed by a tag is answered with "<" followed by the bytes of ssi_fn.
C22_BeginReprocessed ==
    (req.kind = "ssi_begin" /\ ResponseOver) =>
        /\ conn.out = <<HTTP_SSI_TAG_START[1]>> \o ssi_fn_output(TagName(1))
        /\ log.ssi = <<[name |-> TagName(1), len |-> 1]>>

\* C23: every write made while an SSI response is generated (tag-buffer flush,
\* pass-through byte, bytes written by ssi_fn through esp_http_server_write) is
\* no longer than conn_mem_available at that moment.
C23_WithinCredit == log.over = 0

\* C24: when a mismatched tag buffer could only be flushed in part, the rest of
\* it is written before any later file byte: what has been handed to the
\* connection is at every moment an initial part of the file.
C24_RestFirst ==
    (req.kind = "ssi_bad" /\ log.partial > 0 /\ NoTrouble) => IsPrefix(conn.out, SsiFile)

\* C25: an invocation of send_response_ssi that starts while a tag is being
\* collected (BEGIN, TAG or END) writes nothing from the tag buffer and keeps
\* ssi_tag_buff_ptr, so that a tag split over two reads is still replaced.
C25_NoFlushInTag == log.midtag = 0

\* a byte sequence in lower case
Lower(name) == [i \in 1..Len(name) |-> tolower(name[i])]

\* the name ends, whatever the case of its letters, with ext and is longer
EndsWith(name, ext) ==
    /\ Len(name) > Len(ext)
    /\ Lower(SubSeq(name, Len(name) - Len(ext) + 1, Len(name))) = ext

\* C26: is_ssi is set exactly when a file was opened and the name of the opened
\* file ends, case-insensitively, with .shtml, .shtm or .ssi and is longer than
\* that suffix; without an opened file is_ssi is clear.
C26_IsSsi ==
    hs.valid =>
        (hs.is_ssi <=>
            /\ hs.resp_file_opened
            /\ \/ EndsWith(hs.resp_file.path, <<".", "s", "h", "t", "m", "l">>)
               \/ EndsWith(hs.resp_file.path, <<".", "s", "h", "t", "m">>)
               \/ EndsWith(hs.resp_file.path, <<".", "s", "s", "i">>))

\* the file /a.SSI was opened and is treated as an SSI file
C26_Witness ==
    /\ req.kind = "suffix"
    /\ hs.valid /\ hs.resp_file_opened /\ hs.is_ssi
    /\ hs.resp_file.path = <<"/", "a", ".", "S", "S", "I">>

\* the parts of a byte sequence between the occurrences of ch
RECURSIVE Segments(_, _)
Segments(q, ch) ==
    LET hits == {i \in 1..Len(q) : q[i] = ch}
        k == CHOOSE i \in hits : \A j \in hits : i <= j
    IN  IF hits = {} THEN <<q>>
        ELSE <<SubSeq(q, 1, k - 1)>> \o Segments(SubSeq(q, k + 1, Len(q)), ch)

\* the part of a URI before its first '?'
PathOf(uri) == Segments(uri, "?")[1]

\* the query of a URI: what follows its first '?'
QueryOf(uri) == SubSeq(uri, Len(PathOf(uri)) + 2, Len(uri))

\* name and value of one segment of a query
ParamOf(seg) ==
    LET parts == Segments(seg, "=")
    IN  [name |-> parts[1],
         value |-> IF Len(parts) = 1 THEN NullStr
                   ELSE SubSeq(seg, Len(parts[1]) + 2, Len(seg))]

\* the parameters of a URI
ParamsOf(uri) ==
    IF PathOf(uri) = uri THEN <<>>
    ELSE LET segs == Segments(QueryOf(uri), "&")
         IN  [i \in 1..Min(Len(segs), HTTP_MAX_PARAMS) |-> ParamOf(segs[i])]

\* C27: the path before '?' is compared exactly with the URIs of the CGI
\* handlers in registration order; the first handler that matches is called
\* once, with the parsed parameters and their count, and the file opened is the
\* URI it returns; without a match no handler runs and the path is opened.
C27_FirstHandler ==
    (req.kind = "get" /\ hs.valid /\ hs.headers_received) =>
        LET path == PathOf(req.uri)
            hits == {i \in 1..Len(hi_cgi) : hi_cgi[i].uri = path}
        IN  /\ log.opens # <<>>
            /\ IF hits = {}
               THEN log.cgi = <<>> /\ log.opens[1] = path
               ELSE \E m \in hits :
                       /\ \A j \in hits : m <= j
                       /\ log.cgi = <<[handler |-> m, cnt |-> Len(ParamsOf(req.uri)),
                                       params |-> ParamsOf(req.uri)]>>
                       /\ log.opens[1] = hi_cgi[m].fn

\* the request /c?a=1&b reached the first of the two handlers of /c with two
\* parameters, and the file /s it returned is being served
C27_Witness ==
    /\ req.uri = <<"/", "c", "?", "a", "=", "1", "&", "b">>
    /\ hs.valid /\ hs.resp_file_opened
    /\ hs.resp_file.path = <<"/", "s">>
    /\ Len(log.cgi) = 1 /\ log.cgi[1].cnt = 2
    /\ log.cgi[1].params[2] = [name |-> <<"b">>, value |-> NullStr]

\* C28: the query is cut at each '&' into min(segments, HTTP_MAX_PARAMS)
\* entries, in order, and that number is the count; the name of an entry is the
\* text before the first '=' of its segment and the value the text after it, or
\* NULL when the segment has no '='; a URI without '?' gives no entry.
C28_Params ==
    (req.kind \in {"query", "get"} /\ log.cgi # <<>>) =>
        /\ log.cgi[1].cnt = Len(ParamsOf(req.uri))
        /\ log.cgi[1].params = ParamsOf(req.uri)

\* the query a&=a: the first entry has no value although an '=' follows in the
\* second segment
C28_Witness ==
    /\ req.kind = "query"
    /\ QueryOf(req.uri) = <<"a", "&", "=", "a">>
    /\ log.cgi # <<>>
    /\ log.cgi[1].cnt = 2
    /\ log.cgi[1].params = <<[name |-> <<"a">>, value |-> NullStr],
                              [name |-> <<>>, value |-> <<"a">>]>>

\* the sizes the stated policy tries: the first size, then each halved size as
\* long as it is at least 64 bytes, until one fits into the heap
RECURSIVE StatedSizes(_, _)
StatedSizes(len, mem) ==
    IF len <= mem \/ (len \div 2) < MinAllocLen THEN <<len>>
    ELSE <<len>> \o StatedSizes(len \div 2, mem)

\* C29: read_resp_file first asks for min(remaining, ESP_CFG_CONN_MAX_DATA_LEN)
\* bytes and after each failed allocation for half of that, as long as the
\* halved size is at least 64 bytes; the buffer stays NULL only when every one
\* of these sizes was refused.
C29_HalvingDownTo64 ==
    (rd.res # NoRes) =>
        LET stated == StatedSizes(Min(rd.remaining, rd.max_len), rd.mem)
        IN  /\ rd.res.sizes = stated
            /\ rd.res.ok <=> stated[Len(stated)] <= rd.mem

\* the request line: the bytes before the first CRLF
RequestLine(bytes) ==
    LET ends == {i \in 1..(Len(bytes) - 1) : SubSeq(bytes, i, i + 1) = CRLF}
    IN  SubSeq(bytes, 1, (CHOOSE i \in ends : \A j \in ends : i <= j) - 1)

\* the request target: what stands between the first space of the request line
\* and its second space or, without a second space, its end
RequestTarget(bytes) == Segments(RequestLine(bytes), " ")[2]

\* C30: the URI http_parse_uri extracts is the request target of the request
\* line: it ends at the second space or, for a request line without a version,
\* at the line's CRLF, holds no byte from behind the first CRLF, is at most
\* HTTP_MAX_URI_LEN bytes long and is followed by a NUL.
C30_RequestTarget ==
    \A i \in 1..Len(log.parsed) :
        /\ log.parsed[i] = RequestTarget(req.bytes) \o <<"NUL">>
        /\ Len(RequestTarget(req.bytes)) <= HTTP_MAX_URI_LEN

\* the response file of the connection: opened only for a complete, parsed
\* request with an allowed method, one at most, closed when CLOSED is handled
FileHeld ==
    /\ hs.resp_file_opened =>
          /\ hs.valid /\ hs.headers_received /\ log.parsed # <<>>
          /\ hs.req_method \in {"HTTP_METHOD_GET", "HTTP_METHOD_POST"}
    /\ log.fopen <= 1
    /\ log.fopen = (IF hs.resp_file_opened THEN 1 ELSE 0) + log.fclose
    /\ log.fclose > 0 => conn.state \notin {"idle", "active"} /\ ~hs.valid

\* C31: per connection the request is parsed at most once (headers_received and
\* process_resp never fall back to false), a response file is opened only after
\* complete headers with a parsed URI and an allowed method, at most one file is
\* held open, and an opened file is closed exactly once, when CLOSED is
\* handled, after which the connection has no state to read it through.
C31_OnceOpenedOnceClosed ==
    /\ []FileHeld
    /\ [][ /\ Len(log'.parsed) <= 1
           /\ (hs.valid /\ hs'.valid) =>
                 /\ hs.headers_received => hs'.headers_received
                 /\ hs.process_resp => hs'.process_resp ]_vars

\* the dynamic file /d was opened for a GET, sent, and closed at CLOSED
C31_Witness ==
    /\ req.uri = <<"/", "d">>
    /\ conn.state = "closed"
    /\ conn.out = <<"a", "b", "c">>
    /\ log.fopen = 1 /\ log.fclose = 1
    /\ ~hs.valid

\* C32: once CLOSED was handled and the HTTP state freed, no later event on the
\* slot works with the freed state, the events of a new connection whose state
\* could not be allocated included: the user argument does not refer to it.
C32_NoUseAfterFree ==
    /\ log.uaf = 0
    /\ conn.state \in {"closed", "reused", "late"} => conn.arg = "null"

\* C33: the buffer of a dynamic file that was handed to esp_conn_send is not
\* freed, by read_resp_file or by the CLOSED handler, while the chunk is still
\* queued for the producer thread or being sent by it.
C33_NotFreedWhileSent == log.sent_freed = 0

\* C34: every call of esp_conn_send the server makes meets the conditions
\* esp_conn_send asserts: conn, data and bw are not NULL and btw > 0.
C34_SendInputs == log.bad_sends = 0

\* C39: in every state of a connection ssi_tag_len <= HTTP_SSI_TAG_MAX_LEN and
\* ssi_tag_buff_ptr <= HTTP_SSI_TAG_START_LEN + HTTP_SSI_TAG_MAX_LEN +
\* HTTP_SSI_TAG_END_LEN, and while ssi_state is TAG or END ssi_tag_buff_ptr >=
\* HTTP_SSI_TAG_START_LEN + ssi_tag_len, so that no index subtraction wraps.
C39_SsiBounds ==
    hs.valid =>
        /\ hs.ssi_tag_len <= HTTP_SSI_TAG_MAX_LEN
        /\ hs.ssi_tag_buff_ptr
              <= HTTP_SSI_TAG_START_LEN + HTTP_SSI_TAG_MAX_LEN + HTTP_SSI_TAG_END_LEN
        /\ hs.ssi_state \in {"HTTP_SSI_STATE_TAG", "HTTP_SSI_STATE_END"}
              => hs.ssi_tag_buff_ptr >= HTTP_SSI_TAG_START_LEN + hs.ssi_tag_len

\* C35: when INIT_FINISH is delivered the five init commands were accepted by
\* the producer queue and the pipeline has executed them: the producer thread
\* took all five and is not working on one of them any more.
C35_InitExecuted ==
    init_finish =>
        /\ Len(taken) >= Len(esp_init_cmds)
        /\ SubSeq(taken, 1, Len(esp_init_cmds)) = InitOrder
        /\ (Len(taken) = Len(esp_init_cmds) => inflight = NoMsg)

\* C36: nothing touches esp.buff before esp_buff_init has returned: until then
\* the receive interrupts are not enabled, the two threads are not started and
\* esp_input has not been called.
C36_BuffInitFirst ==
    /\ (irq_enabled \/ threads_started) => buff_ready
    /\ early = 0

\* the bytes the device has sent so far, in arrival order
Arrived == [i \in 1..rx_count |-> i]

\* C37: the bytes handed to esp_input are the bytes that arrived, each once and
\* in arrival order: at every moment what esp_input has received is an initial
\* part of what arrived, nothing left out, repeated or out of order.
\* Runs in which the handlers come so late that the DMA laps them are left out.
C37_EachByteOnce ==
    ~overrun => IsPrefix(input, Arrived)

\* C38: whenever a handler computes to_read, curr_pos >= old_pos, and the range
\* it hands to esp_input ends inside usart_mem. Runs in which the DMA laps the
\* handlers are left out.
C38_RangeInside ==
    ~overrun =>
        /\ last_call.curr_pos >= last_call.old_pos
        /\ last_call.start_pos + last_call.to_read <= UsartMemSize

\* the application thread and the pipeline, no HTTP connection
SpecApiInit ==
    ApiInit /\ HttpIdle /\ rx = <<>> /\ fsys = BaseFs /\ req = None /\ ReadIdle /\ UartIdle

SpecApi == SpecApiInit /\ [][ApiNext]_vars

\* one HTTP connection serving one request; the API side at rest
SpecHttpInit == ApiInit /\ HttpInit /\ ReadIdle /\ UartIdle

SpecHttp == SpecHttpInit /\ [][HttpNext]_vars

\* one call of read_resp_file; the API side and the HTTP connection at rest
SpecReadInit ==
    ApiInit /\ HttpIdle /\ rx = <<>> /\ fsys = BaseFs /\ req = None /\ ReadInit /\ UartIdle

SpecRead == SpecReadInit /\ [][ReadNext]_vars

\* esp_init up to esp_buff_init and the receive interrupts; the rest at rest
SpecUartInit ==
    ApiInit /\ HttpIdle /\ rx = <<>> /\ fsys = BaseFs /\ req = None /\ ReadIdle /\ UartIdle

SpecUart == SpecUartInit /\ [][UartNext]_vars
====
